---- MODULE Spec2Model ----
(***************************************************************************)
(* Pattern-notation engine of loopledger (parsePatternRows and the         *)
(* functions it calls) as a state machine.  A JavaScript string is a       *)
(* sequence of one-character strings, so every regular expression of the   *)
(* source is a matcher over characters and every template string is a      *)
(* concatenation.                                                          *)
(***************************************************************************)
EXTENDS Integers, Sequences, FiniteSets

----------------------------------------------------------------------------
(* Characters and the primitive pieces of the regular expressions.         *)

UpperLetters == <<"A","B","C","D","E","F","G","H","I","J","K","L","M","N","O","P","Q","R","S","T","U","V","W","X","Y","Z">>

LowerLetters == <<"a","b","c","d","e","f","g","h","i","j","k","l","m","n","o","p","q","r","s","t","u","v","w","x","y","z">>

DigitChars == <<"0","1","2","3","4","5","6","7","8","9">>

Range(s) == {s[i] : i \in DOMAIN s}

\* [A-Z], [a-z] and \d
UpperClass == Range(UpperLetters)

LowerClass == Range(LowerLetters)

DigitClass == Range(DigitChars)

\* \s (the model's texts hold blanks, tabs and line feeds)
SpaceClass == {" ", "\t", "\n"}

LowerOf ==
  [c \in UpperClass |-> LowerLetters[CHOOSE i \in DOMAIN UpperLetters : UpperLetters[i] = c]]

UpperOf ==
  [c \in LowerClass |-> UpperLetters[CHOOSE i \in DOMAIN LowerLetters : LowerLetters[i] = c]]

DigitValueOf ==
  [c \in DigitClass |-> (CHOOSE i \in DOMAIN DigitChars : DigitChars[i] = c) - 1]

\* String.prototype.toLowerCase on one character.
LowerChar(c) == IF c \in UpperClass THEN LowerOf[c] ELSE c

\* String.prototype.toUpperCase on one character.
UpperChar(c) == IF c \in LowerClass THEN UpperOf[c] ELSE c

toLowerCase(s) == [i \in DOMAIN s |-> LowerChar(s[i])]

toUpperCase(s) == [i \in DOMAIN s |-> UpperChar(s[i])]

IsDigit(c) == c \in DigitClass

IsSpace(c) == c \in SpaceClass

\* [A-Za-z0-9]
IsAlnum(c) == c \in DigitClass \/ c \in UpperClass \/ c \in LowerClass

\* A matcher takes a string s and a position i (1..Len(s)+1) and returns the
\* position after the match, or 0 when there is no match at i.

\* a literal word under the i flag
Lit(s, i, w) ==
  IF i = 0 \/ i + Len(w) - 1 > Len(s) THEN 0
  ELSE IF \A k \in DOMAIN w : LowerChar(s[i + k - 1]) = LowerChar(w[k])
    THEN i + Len(w) ELSE 0

\* an alternation or an optional group: the first way that matches, a being
\* the end of the first way and b the end of the second
OrElse(a, b) == IF a # 0 THEN a ELSE b

\* an optional literal word: w?
Opt(s, i, w) == OrElse(Lit(s, i, w), i)

\* end of the maximal run, starting at i, of characters of the class
RECURSIVE RunEnd(_, _, _)
RunEnd(s, i, class) ==
  IF i = 0 THEN 0
  ELSE IF i <= Len(s) /\ s[i] \in class THEN RunEnd(s, i + 1, class) ELSE i

\* \s*
Spaces0(s, i) == RunEnd(s, i, SpaceClass)

\* [class]+: a run of at least one character
Run1(s, i, class) == IF i # 0 /\ RunEnd(s, i, class) > i THEN RunEnd(s, i, class) ELSE 0

\* \s+
Spaces1(s, i) == Run1(s, i, SpaceClass)

\* \d+
Digits1(s, i) == Run1(s, i, DigitClass)

\* a single \d at position p
DigitAt(s, p) == p # 0 /\ p <= Len(s) /\ IsDigit(s[p])

\* $
AtEnd(s, i) == i # 0 /\ i = Len(s) + 1

\* String.prototype.slice(from, to) with 1-based from and exclusive to
Slice(s, from, to) == SubSeq(s, from, to - 1)

\* the group (\d+) that starts at d0
DigitsFrom(s, d0) == Slice(s, d0, Digits1(s, d0))

\* the result of String.prototype.match with one group (\d+): [ok, digits];
\* ok = FALSE stands for null
Group(ok, digits) == [ok |-> ok, digits |-> IF ok THEN digits ELSE <<>>]

\* String.prototype.trim
RECURSIVE TrimLeft(_)
TrimLeft(s) == IF s # <<>> /\ IsSpace(Head(s)) THEN TrimLeft(Tail(s)) ELSE s

RECURSIVE TrimRight(_)
TrimRight(s) ==
  IF s # <<>> /\ IsSpace(s[Len(s)]) THEN TrimRight(SubSeq(s, 1, Len(s) - 1)) ELSE s

Trim(s) == TrimRight(TrimLeft(s))

\* String.prototype.indexOf(c, i) with 1-based positions; 0 when absent
\* the least number of a non-empty set of numbers
Least(S) == CHOOSE i \in S : \A j \in S : i <= j

LeastOrZero(S) == IF S = {} THEN 0 ELSE Least(S)

IndexOf(s, c, i) == LeastOrZero({k \in i..Len(s) : s[k] = c})

\* String.prototype.split on a one-character separator
RECURSIVE Split(_, _)
Split(s, sep) ==
  LET i == IndexOf(s, sep, 1)
  IN IF i = 0 THEN <<s>>
     ELSE <<SubSeq(s, 1, i - 1)>> \o Split(SubSeq(s, i + 1, Len(s)), sep)

\* Array.prototype.flat on an array of arrays
\* (the two halves are flattened apart, so that the depth of the
\* evaluation grows with the logarithm of the length)
RECURSIVE Flat(_)
Flat(ss) ==
  IF ss = <<>> THEN <<>>
  ELSE IF Len(ss) = 1 THEN ss[1]
  ELSE Flat(SubSeq(ss, 1, Len(ss) \div 2)) \o Flat(SubSeq(ss, Len(ss) \div 2 + 1, Len(ss)))

\* Number() of a string of decimal digits
RECURSIVE ToNumber(_)
ToNumber(d) ==
  IF d = <<>> THEN 0
  ELSE 10 * ToNumber(SubSeq(d, 1, Len(d) - 1)) + DigitValueOf[d[Len(d)]]

\* String(n) of a non-negative integer, as a template literal prints it
RECURSIVE NumberToString(_)
NumberToString(n) ==
  IF n < 10 THEN <<DigitChars[n + 1]>>
  ELSE NumberToString(n \div 10) \o <<DigitChars[(n % 10) + 1]>>

Max(a, b) == IF a >= b THEN a ELSE b

----------------------------------------------------------------------------
(* The helper functions of the engine.                                     *)

\* value.replace(/[^A-Za-z0-9]/g, "").toUpperCase()
normalizeCode(value) == toUpperCase(SelectSeq(value, IsAlnum))

\* value.replace(/^"|"$/g, "").replace(/\.+$/, "").trim()
RECURSIVE StripTrailingPeriods(_)
StripTrailingPeriods(s) ==
  IF s # <<>> /\ s[Len(s)] = "." THEN StripTrailingPeriods(SubSeq(s, 1, Len(s) - 1)) ELSE s

StripQuotes(s) ==
  LET a == IF s # <<>> /\ Head(s) = "\"" THEN Tail(s) ELSE s
  IN IF a # <<>> /\ a[Len(a)] = "\"" THEN SubSeq(a, 1, Len(a) - 1) ELSE a

cleanToken(value) == Trim(StripTrailingPeriods(StripQuotes(value)))

\* Digits without their leading zeros: the decimal numeral of Number(d).
RECURSIVE StripLeadingZeros(_)
StripLeadingZeros(d) ==
  IF Len(d) > 1 /\ Head(d) = "0" THEN StripLeadingZeros(Tail(d)) ELSE d

\* Number.isFinite(Number(d)) for a string of digits: a decimal integer of
\* at most 308 digits is below Number.MAX_VALUE.
MaxFiniteDigits == 308

IsFiniteNumber(d) == Len(StripLeadingZeros(d)) <= MaxFiniteDigits

\* variant: every finite count is taken as written, 0 included
parseFiniteInt(value) == IF IsFiniteNumber(value) THEN ToNumber(value) ELSE 1

\* parsePositiveInt(value, fallback = 1); every caller passes a (\d+) group
parsePositiveInt(value) ==
  IF IsFiniteNumber(value) /\ ToNumber(value) > 0 THEN ToNumber(value) ELSE 1

\* value.replace(/\s+/g, " ").trim()
\* every character with what replaces it: a space for the first character of
\* a run of whitespace, nothing for the other characters of the run
RunsMarked(s) ==
  [i \in DOMAIN s |->
     [char |-> IF IsSpace(s[i]) THEN " " ELSE s[i],
      kept |-> ~IsSpace(s[i]) \/ i = 1 \/ ~IsSpace(s[i - 1])]]

IsKept(mark) == mark.kept

CharsOf(marks) == [i \in DOMAIN marks |-> marks[i].char]

CollapseSpaces(s) == CharsOf(SelectSeq(RunsMarked(s), IsKept))

normalizeBodyText(value) == Trim(CollapseSpaces(value))

\* new Map(glossary.map((entry) => [normalizeCode(entry.code), entry])):
\* a later entry with the same normalized code replaces an earlier one.
GlossaryMapOf(glossary) ==
  [c \in {normalizeCode(glossary[i].code) : i \in DOMAIN glossary} |->
     glossary[CHOOSE i \in DOMAIN glossary :
                /\ normalizeCode(glossary[i].code) = c
                /\ \A j \in DOMAIN glossary :
                     normalizeCode(glossary[j].code) = c => j <= i]]

\* /^<w>\d*$/i
WordThenDigits(code, w) == AtEnd(code, RunEnd(code, Lit(code, 1, w), DigitClass))

getGlossaryLabel(code, glossaryMap) ==
  IF normalizeCode(code) \in DOMAIN glossaryMap THEN glossaryMap[normalizeCode(code)].title
  ELSE IF WordThenDigits(code, <<"k">>) THEN <<"K","n","i","t">>
  ELSE IF WordThenDigits(code, <<"p">>) THEN <<"P","u","r","l">>
  ELSE IF WordThenDigits(code, <<"s","l">>) THEN <<"S","l","i","p">>
  ELSE code

----------------------------------------------------------------------------
(* Round Draft Extractor: parseRoundDrafts.                                *)

\* /^note\s*:/i
IsNoteLine(line) == Lit(line, Spaces0(line, Lit(line, 1, <<"n","o","t","e">>)), <<":">>) # 0

\* (Rnds?|Rows?) at position i
RoundWord(s, i) ==
  OrElse(Opt(s, Lit(s, i, <<"R","n","d">>), <<"s">>), Opt(s, Lit(s, i, <<"R","o","w">>), <<"s">>))

\* /^(Rnds?|Rows?)\s*\d/i
IsHeaderLine(line) == DigitAt(line, Spaces0(line, RoundWord(line, 1)))

\* [\d,\s]
HeaderClass == DigitClass \cup {","} \cup SpaceClass

\* /(Rnds?|Rows?)\s*[\d,\s]+:/i at position i; \s*[\d,\s]+ is a non-empty
\* run of [\d,\s], because \s is part of the class.
HeaderAt(s, i) == Lit(s, Run1(s, RoundWord(s, i), HeaderClass), <<":">>)

\* [...line.matchAll(headerRegex)]: the non-overlapping matches from the
\* left, each as [index, end) in 1-based positions
RECURSIVE HeaderMatches(_, _)

\* the match that starts at index, and the matches after its end
HeaderMatchAt(line, index) ==
  <<[index |-> index, end |-> HeaderAt(line, index)]>>
    \o HeaderMatches(line, HeaderAt(line, index))

\* the positions from `from` on where the header pattern matches
HeaderStarts(line, from) == {i \in from..Len(line) : HeaderAt(line, i) # 0}

HeaderMatchesAmong(line, starts) ==
  IF starts = {} THEN <<>> ELSE HeaderMatchAt(line, Least(starts))

HeaderMatches(line, from) == HeaderMatchesAmong(line, HeaderStarts(line, from))

\* header.match(/\d+/g): the maximal runs of digits, left to right
RECURSIVE DigitRuns(_)
DigitRuns(s) ==
  IF s = <<>> THEN <<>>
  ELSE IF IsDigit(Head(s))
    THEN <<SubSeq(s, 1, Digits1(s, 1) - 1)>> \o DigitRuns(SubSeq(s, Digits1(s, 1), Len(s)))
    ELSE DigitRuns(Tail(s))

NonEmpty(line) == line # <<>>

NotCarriageReturn(c) == c # "\r"

\* input.replace(/\r/g, "").split("\n").map((line) => line.trim()).filter(Boolean)
TrimAll(parts) == [i \in DOMAIN parts |-> Trim(parts[i])]

RawLines(input) ==
  SelectSeq(TrimAll(Split(SelectSeq(input, NotCarriageReturn), "\n")), NonEmpty)

\* variant: a continuation line with no logical line before it opens one
RECURSIVE JoinLinesOpening(_, _, _)
JoinLinesOpening(rawLines, logicalLines, errors) ==
  IF rawLines = <<>> THEN [logicalLines |-> logicalLines, errors |-> errors]
  ELSE LET line == Head(rawLines)
           n == Len(logicalLines)
       IN IF IsNoteLine(line) THEN JoinLinesOpening(Tail(rawLines), logicalLines, errors)
          ELSE IF IsHeaderLine(line) \/ n = 0
            THEN JoinLinesOpening(Tail(rawLines), Append(logicalLines, line), errors)
          ELSE JoinLinesOpening(Tail(rawLines),
                  [logicalLines EXCEPT ![n] = logicalLines[n] \o <<" ">> \o line], errors)

\* the first forEach: comment lines dropped, header lines opened,
\* continuation lines joined to the last logical line
RECURSIVE JoinLines(_, _, _)
JoinLines(rawLines, logicalLines, errors) ==
  IF rawLines = <<>> THEN [logicalLines |-> logicalLines, errors |-> errors]
  ELSE LET line == Head(rawLines)
           n == Len(logicalLines)
       IN IF IsNoteLine(line) THEN JoinLines(Tail(rawLines), logicalLines, errors)
          ELSE IF IsHeaderLine(line)
            THEN JoinLines(Tail(rawLines), Append(logicalLines, line), errors)
          ELSE IF n = 0
            THEN JoinLines(Tail(rawLines), logicalLines,
                   Append(errors, <<"U","n","e","x","p","e","c","t","e","d"," ","c","o","n","t","i","n","u","a","t","i","o","n"," ","w","i","t","h","o","u","t"," ","r","o","u","n","d"," ","h","e","a","d","e","r",":"," ","\"">>
                                    \o line \o <<"\"">>))
          ELSE JoinLines(Tail(rawLines),
                  [logicalLines EXCEPT ![n] = logicalLines[n] \o <<" ">> \o line], errors)

\* variant: only the first integer of a header gives a draft
DraftsOfMatchFirstNumber(line, matches, index) ==
  LET header == Slice(line, matches[index].index, matches[index].end)
      bodyStart == matches[index].end
      bodyEnd == IF index < Len(matches) THEN matches[index + 1].index ELSE Len(line) + 1
      body == normalizeBodyText(Slice(line, bodyStart, bodyEnd))
      numbers == DigitRuns(header)
  IN IF numbers = <<>>
       THEN [drafts |-> <<>>,
             errors |-> <<<<"N","o"," ","r","o","u","n","d"," ","n","u","m","b","e","r","s"," ","f","o","u","n","d"," ","i","n"," ","h","e","a","d","e","r"," ","\"">> \o header \o <<"\"",".">>>>]
       ELSE [drafts |-> <<[roundNumber |-> ToNumber(numbers[1]),
                           body |-> body,
                           raw |-> Trim(header \o <<" ">> \o body)]>>,
             errors |-> <<>>]

\* variant: the body of every header runs to the end of the line
DraftsOfMatchToEndOfLine(line, matches, index) ==
  LET header == Slice(line, matches[index].index, matches[index].end)
      body == normalizeBodyText(Slice(line, matches[index].end, Len(line) + 1))
      numbers == DigitRuns(header)
  IN IF numbers = <<>>
       THEN [drafts |-> <<>>,
             errors |-> <<<<"N","o"," ","r","o","u","n","d"," ","n","u","m","b","e","r","s"," ","f","o","u","n","d"," ","i","n"," ","h","e","a","d","e","r"," ","\"">> \o header \o <<"\"",".">>>>]
       ELSE [drafts |-> [k \in DOMAIN numbers |->
                           [roundNumber |-> ToNumber(numbers[k]),
                            body |-> body,
                            raw |-> Trim(header \o <<" ">> \o body)]],
             errors |-> <<>>]

\* the body of matches.forEach for the match of the given index
DraftsOfMatch(line, matches, index) ==
  LET header == Slice(line, matches[index].index, matches[index].end)
      bodyStart == matches[index].end
      bodyEnd == IF index < Len(matches) THEN matches[index + 1].index ELSE Len(line) + 1
      body == normalizeBodyText(Slice(line, bodyStart, bodyEnd))
      numbers == DigitRuns(header)
  IN IF numbers = <<>>
       THEN [drafts |-> <<>>,
             errors |-> <<<<"N","o"," ","r","o","u","n","d"," ","n","u","m","b","e","r","s"," ","f","o","u","n","d"," ","i","n"," ","h","e","a","d","e","r"," ","\"">> \o header \o <<"\"",".">>>>]
       ELSE [drafts |-> [k \in DOMAIN numbers |->
                           [roundNumber |-> ToNumber(numbers[k]),
                            body |-> body,
                            raw |-> Trim(header \o <<" ">> \o body)]],
             errors |-> <<>>]

\* the drafts and the errors of several matches or lines, in their order
Collect(per) ==
  [drafts |-> Flat([i \in DOMAIN per |-> per[i].drafts]),
   errors |-> Flat([i \in DOMAIN per |-> per[i].errors])]

\* the body of logicalLines.forEach for one logical line and its matches
DraftsOfMatches(line, matches) ==
  IF matches = <<>>
    THEN [drafts |-> <<>>,
          errors |-> <<<<"C","o","u","l","d"," ","n","o","t"," ","f","i","n","d"," ","r","o","u","n","d"," ","h","e","a","d","e","r"," ","i","n",":"," ","\"">> \o line \o <<"\"">>>>]
    ELSE Collect([i \in DOMAIN matches |-> DraftsOfMatch(line, matches, i)])

DraftsOfLine(line) == DraftsOfMatches(line, HeaderMatches(line, 1))

\* the errors of the first forEach come before those of the second
WithErrors(errors, collected) ==
  [drafts |-> collected.drafts, errors |-> errors \o collected.errors]

\* logicalLines.forEach over the logical lines the first forEach joined
DraftsOfLines(joined) ==
  WithErrors(joined.errors,
             Collect([i \in DOMAIN joined.logicalLines |->
                        DraftsOfLine(joined.logicalLines[i])]))

parseRoundDrafts(input) == DraftsOfLines(JoinLines(RawLines(input), <<>>, <<>>))

----------------------------------------------------------------------------
(* Operation Classifier: parseSingleOperation.                             *)

\* a ParsedOperation; warning <<>> stands for an absent warning
Operation(code, label, consume, produce, units, warning) ==
  [code |-> code, label |-> label, consume |-> consume, produce |-> produce,
   units |-> units, warning |-> warning]

NoWarning == <<>>

\* value.toLowerCase().replace(/\s+/g, " ")
NormalizedValue(value) == CollapseSpaces(toLowerCase(value))

\* /^k\s+around$/i
\* variant: the pattern without the whitespace between the two words
MatchKAroundTokenNoSpace(v) == AtEnd(v, Lit(v, Lit(v, 1, <<"k">>), <<"a","r","o","u","n","d">>))

MatchKAroundToken(v) == AtEnd(v, Lit(v, Spaces1(v, Lit(v, 1, <<"k">>)), <<"a","r","o","u","n","d">>))

\* /^place\s+(\d+)\s+sts?\s+on\s+cn\s+and\s+hold\s+(?:to\s+the\s+back|in\s+front)$/i
\* the result is [ok, digits], digits being the group (\d+)
PlaceDigitsStart(v) == Spaces1(v, Lit(v, 1, <<"p","l","a","c","e">>))

\* (?:to\s+the\s+back|in\s+front)$ at position hold
PlaceHeldWhere(v, hold) ==
  \/ AtEnd(v, Lit(v, Spaces1(v, Lit(v, Spaces1(v, Lit(v, hold, <<"t","o">>)), <<"t","h","e">>)), <<"b","a","c","k">>))
  \/ AtEnd(v, Lit(v, Spaces1(v, Lit(v, hold, <<"i","n">>)), <<"f","r","o","n","t">>))

\* \s+sts?\s+on\s+cn\s+and\s+hold\s+ from the end d1 of the digits on
PlaceHold(v, d1) ==
  Spaces1(v, Lit(v, Spaces1(v,
    Lit(v, Spaces1(v,
      Lit(v, Spaces1(v,
        Lit(v, Spaces1(v,
          Opt(v, Lit(v, Spaces1(v, d1), <<"s","t">>), <<"s">>)),
          <<"o","n">>)),
        <<"c","n">>)),
      <<"a","n","d">>)),
    <<"h","o","l","d">>))

MatchPlaceOnCN(v) ==
  Group(PlaceHeldWhere(v, PlaceHold(v, Digits1(v, PlaceDigitsStart(v)))),
        DigitsFrom(v, PlaceDigitsStart(v)))

\* /^k(\d+)\s+from\s+cn$/i
MatchFromCN(v) ==
  Group(AtEnd(v, Lit(v, Spaces1(v, Lit(v, Spaces1(v, Digits1(v, Lit(v, 1, <<"k">>))),
                                      <<"f","r","o","m">>)), <<"c","n">>)),
        DigitsFrom(v, Lit(v, 1, <<"k">>)))

\* /^<w>$/i
MatchWord(v, w) == AtEnd(v, Lit(v, 1, w))

\* /^k(\d+)tog(?:\s+(tbl|tlb))?(?:\s+from\s+cn)?$/i
\* the result is [ok, digits, loop], loop being the group (tbl|tlb) or <<>>

\* (?:\s+(tbl|tlb))? after tog
KTogLoop(v, tog) ==
  OrElse(OrElse(Lit(v, Spaces1(v, tog), <<"t","b","l">>), Lit(v, Spaces1(v, tog), <<"t","l","b">>)), tog)

\* (?:\s+from\s+cn)? after the first optional group
KTogFromCN(v, g1) ==
  OrElse(Lit(v, Spaces1(v, Lit(v, Spaces1(v, g1), <<"f","r","o","m">>)), <<"c","n">>), g1)

KTogResult(v, tog, g1) ==
  [ok |-> AtEnd(v, KTogFromCN(v, g1)),
   digits |-> DigitsFrom(v, Lit(v, 1, <<"k">>)),
   loop |-> IF g1 # tog THEN Slice(v, g1 - 3, g1) ELSE <<>>]

KTogAfterTog(v, tog) == KTogResult(v, tog, KTogLoop(v, tog))

MatchKTog(v) == KTogAfterTog(v, Lit(v, Digits1(v, Lit(v, 1, <<"k">>)), <<"t","o","g">>))

\* /^<w>(\d+)$/i
MatchWordCount(v, w) ==
  Group(AtEnd(v, Digits1(v, Lit(v, 1, w))), DigitsFrom(v, Lit(v, 1, w)))

\* variant: a counted stitch takes one cell of the grid whatever its count
CountedOperationOneUnit(code, labelCode, count, glossaryMap) ==
  Operation(code, getGlossaryLabel(labelCode, glossaryMap), count, count, 1, NoWarning)

CountedOperation(code, labelCode, count, glossaryMap) ==
  Operation(code, getGlossaryLabel(labelCode, glossaryMap), count, count, count, NoWarning)

\* the chain of patterns of parseSingleOperation, for the cleaned token
\* value, its normalized form v and the matches of the patterns with groups
Classify(value, v, place, fromCN, kTog, slip, knit, purl, glossaryMap) ==
  IF MatchKAroundToken(v)
    THEN Operation(<<"k">>, getGlossaryLabel(<<"k">>, glossaryMap), 1, 1, 1, NoWarning)
  ELSE IF place.ok
    THEN Operation(<<"p","l","a","c","e">> \o place.digits \o <<"C","N">>, <<"C","a","b","l","e"," ","s","e","t","u","p">>, 0, 0, 1, NoWarning)
  ELSE IF fromCN.ok
    THEN LET count == parsePositiveInt(fromCN.digits)
         IN Operation(<<"k">> \o NumberToString(count) \o <<" ","f","r","o","m"," ","C","N">>,
                      <<"K","n","i","t"," ","f","r","o","m"," ","c","a","b","l","e"," ","n","e","e","d","l","e">>, count, count, count, NoWarning)
  ELSE IF MatchWord(v, <<"k","1","y","o","k","1">>)
    THEN Operation(<<"k","1","y","o","k","1">>, getGlossaryLabel(<<"k","1","y","o","k","1">>, glossaryMap), 1, 3, 1, NoWarning)
  ELSE IF MatchWord(v, <<"y","o">>)
    THEN Operation(<<"y","o">>, getGlossaryLabel(<<"y","o">>, glossaryMap), 0, 1, 1, NoWarning)
  ELSE IF MatchWord(v, <<"c","d","d">>)
    THEN Operation(<<"C","D","D">>, getGlossaryLabel(<<"C","D","D">>, glossaryMap), 3, 1, 3, NoWarning)
  ELSE IF kTog.ok
    THEN LET count == parsePositiveInt(kTog.digits)
             suffix == IF kTog.loop = <<>> THEN <<>> ELSE <<" ","t","b","l">>
             base == <<"k">> \o NumberToString(count) \o <<"t","o","g">>
         IN Operation(base \o suffix, getGlossaryLabel(base, glossaryMap),
                      count, 1, count, NoWarning)
  ELSE IF slip.ok
    THEN LET count == parsePositiveInt(slip.digits)
             code == <<"s","l">> \o NumberToString(count)
         IN CountedOperation(code, code, count, glossaryMap)
  ELSE IF knit.ok \/ purl.ok
    THEN LET op == IF knit.ok THEN <<"k">> ELSE <<"p">>
             count == parsePositiveInt(IF knit.ok THEN knit.digits ELSE purl.digits)
             code == op \o NumberToString(count)
         IN CountedOperation(code, code, count, glossaryMap)
  ELSE IF MatchWord(v, <<"k">>) \/ MatchWord(v, <<"p">>)
    THEN LET op == IF MatchWord(v, <<"k">>) THEN <<"k">> ELSE <<"p">>
         IN Operation(op, getGlossaryLabel(op, glossaryMap), 1, 1, 1, NoWarning)
  ELSE Operation(value, value, 1, 1, 1,
                 <<"U","n","k","n","o","w","n"," ","t","o","k","e","n"," ","\"">> \o value
                   \o <<"\""," ","u","s","e","d"," ","f","a","l","l","b","a","c","k"," ","c","o","n","s","u","m","e","=","1","/","p","r","o","d","u","c","e","=","1",".">>)

ClassifyNormalized(value, v, glossaryMap) ==
  Classify(value, v, MatchPlaceOnCN(v), MatchFromCN(v), MatchKTog(v),
           MatchWordCount(v, <<"s","l">>), MatchWordCount(v, <<"k">>), MatchWordCount(v, <<"p">>),
           glossaryMap)

ClassifyCleaned(value, glossaryMap) ==
  ClassifyNormalized(value, NormalizedValue(value), glossaryMap)

parseSingleOperation(token, glossaryMap) == ClassifyCleaned(cleanToken(token), glossaryMap)
----------------------------------------------------------------------------
(* Body Expander: parseBodyOperations.                                     *)

\* /^k\s+around\.?$/i
MatchKAroundBody(b) ==
  AtEnd(b, Opt(b, Lit(b, Spaces1(b, Lit(b, 1, <<"k">>)), <<"a","r","o","u","n","d">>), <<".">>))

\* \s*,?\s*rep\s+from\s+\*\s+to\s+\*\s+ from position i on: the start of (\d+)
RepeatDigitsStart(b, i) ==
  Spaces1(b,
    Lit(b, Spaces1(b,
      Lit(b, Spaces1(b,
        Lit(b, Spaces1(b,
          Lit(b, Spaces1(b,
            Lit(b, Spaces0(b, Opt(b, Spaces0(b, i), <<",">>)), <<"r","e","p">>)),
            <<"f","r","o","m">>)),
          <<"*">>)),
        <<"t","o">>)),
      <<"*">>))

\* \s*,?\s*rep\s+from\s+\*\s+to\s+\*\s+(\d+)\s+times?\.?$ from position i on;
\* the result is [ok, digits]
MatchRepeatTail(b, i) ==
  Group(AtEnd(b, Opt(b, Opt(b, Lit(b, Spaces1(b, Digits1(b, RepeatDigitsStart(b, i))),
                                   <<"t","i","m","e">>), <<"s">>), <<".">>)),
        DigitsFrom(b, RepeatDigitsStart(b, i)))

\* the stars after position 2 that the tail of the pattern matches after
ClosingStars(b) ==
  {j \in 3..Len(b) : b[1] = "*" /\ b[j] = "*" /\ MatchRepeatTail(b, j + 1).ok}

MatchRepeatClosedAt(b, closing) ==
  IF closing # {}
    THEN LET j == CHOOSE k \in closing : \A m \in closing : m <= k
         IN [ok |-> TRUE, block |-> Slice(b, 2, j),
             digits |-> MatchRepeatTail(b, j + 1).digits]
    ELSE [ok |-> FALSE, block |-> <<>>, digits |-> <<>>]

\* /^\*(.+)\*\s*,?\s*rep\s+from\s+\*\s+to\s+\*\s+(\d+)\s+times?\.?$/i
\* (.+) is greedy: the closing star is the last one the tail matches after.
\* The result is [ok, block, digits], the groups (.+) and (\d+).
MatchRepeat(b) == MatchRepeatClosedAt(b, ClosingStars(b))

\* .map(cleanToken)
CleanTokens(parts) == [i \in DOMAIN parts |-> cleanToken(parts[i])]

\* .map((token) => parseSingleOperation(token, glossaryMap))
ParseTokens(tokens, glossaryMap) ==
  [i \in DOMAIN tokens |-> parseSingleOperation(tokens[i], glossaryMap)]

\* text.split(",").map(cleanToken).filter(Boolean).map(parseSingleOperation)
parseTokenList(text, glossaryMap) ==
  ParseTokens(SelectSeq(CleanTokens(Split(text, ",")), NonEmpty), glossaryMap)

\* The length limit of a JavaScript array, 2^32 - 1, as a decimal numeral.
MaxArrayLength == <<"4","2","9","4","9","6","7","2","9","5">>

\* a > b for two decimal numerals without leading zeros
DecimalGreater(a, b) ==
  \/ Len(a) > Len(b)
  \/ /\ Len(a) = Len(b)
     /\ \E k \in DOMAIN a :
          /\ DigitValueOf[a[k]] > DigitValueOf[b[k]]
          /\ \A j \in 1..(k - 1) : a[j] = b[j]

\* Array.from({ length: times }, ...) throws a RangeError when times, the
\* value parsePositiveInt returns for the digits, is above the array limit.
InvalidArrayLength(digits) ==
  IsFiniteNumber(digits) /\ DecimalGreater(StripLeadingZeros(digits), MaxArrayLength)

\* Array.from({ length: times }, () => blockOps).flat()
RepeatOperations(blockOps, times) == Flat([k \in 1..times |-> blockOps])

\* variant: the live count is taken without its minimum of 1
KAroundOperationsNoMinimum(currentStitches, glossaryMap) ==
  <<Operation(<<"k">> \o NumberToString(currentStitches), getGlossaryLabel(<<"k">>, glossaryMap),
              currentStitches, currentStitches, currentStitches, NoWarning)>>

\* the single operation of a whole-body `k around`
KAroundOperations(currentStitches, glossaryMap) ==
  LET stitches == Max(1, currentStitches)
  IN <<Operation(<<"k">> \o NumberToString(stitches), getGlossaryLabel(<<"k">>, glossaryMap),
                 stitches, stitches, stitches, NoWarning)>>

HasWarning(op) == op.warning # NoWarning

\* operations.forEach((op) => { if (op.warning) warnings.push(op.warning) })
WarningsOf(operations) ==
  LET warned == SelectSeq(operations, HasWarning)
  IN [i \in DOMAIN warned |-> warned[i].warning]

NoException == "none"

RangeError == "RangeError: Invalid array length"

\* the result is [operations, warnings, thrown]; thrown names the exception
\* that leaves the function, NoException when it returns
Parsed(operations) ==
  [operations |-> operations, warnings |-> WarningsOf(operations), thrown |-> NoException]

\* parseBodyOperations after normalizedBody and repeatMatch are computed
ParseMatchedBody(normalizedBody, repeatMatch, currentStitches, glossaryMap) ==
  IF MatchKAroundBody(normalizedBody)
    THEN [operations |-> KAroundOperations(currentStitches, glossaryMap),
          warnings |-> <<>>, thrown |-> NoException]
  ELSE IF repeatMatch.ok /\ InvalidArrayLength(repeatMatch.digits)
    THEN [operations |-> <<>>, warnings |-> <<>>, thrown |-> RangeError]
  ELSE IF repeatMatch.ok
    THEN Parsed(RepeatOperations(parseTokenList(Trim(repeatMatch.block), glossaryMap),
                                 parsePositiveInt(repeatMatch.digits)))
  ELSE Parsed(parseTokenList(normalizedBody, glossaryMap))

ParseNormalizedBody(normalizedBody, currentStitches, glossaryMap) ==
  ParseMatchedBody(normalizedBody, MatchRepeat(normalizedBody), currentStitches, glossaryMap)

parseBodyOperations(body, currentStitches, glossaryMap) ==
  ParseNormalizedBody(normalizeBodyText(body), currentStitches, glossaryMap)

----------------------------------------------------------------------------
(* Row Assembler / Stitch Propagator: the callback of drafts.forEach in    *)
(* parsePatternRows, as a function of the locals it reads and writes.      *)

\* (?:nd|ow)? after the r that ends at r
SeeRound(body, r) == OrElse(OrElse(Lit(body, r, <<"n","d">>), Lit(body, r, <<"o","w">>)), r)

\* ^see\s+r(?:nd|ow)?\s* : the start of (\d+)
SeeDigitsStart(body) ==
  Spaces0(body, SeeRound(body, Lit(body, Spaces1(body, Lit(body, 1, <<"s","e","e">>)), <<"r">>)))

\* /^see\s+r(?:nd|ow)?\s*(\d+)\.?$/i; the result is [ok, digits]
SeeMatch(body) ==
  Group(AtEnd(body, Opt(body, Digits1(body, SeeDigitsStart(body)), <<".">>)),
        DigitsFrom(body, SeeDigitsStart(body)))

\* new Map<number, string>()
EmptyMap == <<>>

\* Map.prototype.get: [found, value]; found = FALSE stands for undefined
MapGet(map, key) ==
  IF key \in DOMAIN map THEN [found |-> TRUE, value |-> map[key]]
  ELSE [found |-> FALSE, value |-> <<>>]

\* Map.prototype.set
MapSet(map, key, value) ==
  [k \in DOMAIN map \cup {key} |-> IF k = key THEN value ELSE map[k]]

\* !targetBody: undefined and the empty string are falsy
IsFalsy(got) == ~got.found \/ got.value = <<>>

\* drafts.sort((a, b) => a.roundNumber - b.roundNumber): Array.prototype.sort
\* is stable, so a draft goes after the drafts that do not compare greater.
\* variant: a draft goes before the drafts of its own round number
InsertDraftBeforeEqual(sorted, draft) ==
  LET before == {i \in DOMAIN sorted : sorted[i].roundNumber - draft.roundNumber < 0}
      n == Cardinality(before)
  IN SubSeq(sorted, 1, n) \o <<draft>> \o SubSeq(sorted, n + 1, Len(sorted))

InsertDraft(sorted, draft) ==
  LET before == {i \in DOMAIN sorted : sorted[i].roundNumber - draft.roundNumber <= 0}
      n == Cardinality(before)
  IN SubSeq(sorted, 1, n) \o <<draft>> \o SubSeq(sorted, n + 1, Len(sorted))

\* variant: the drafts are visited in the order of the text
SortDraftsTextOrder(ds) == ds

RECURSIVE SortDrafts(_)
SortDrafts(ds) ==
  IF ds = <<>> THEN <<>>
  ELSE InsertDraft(SortDrafts(SubSeq(ds, 1, Len(ds) - 1)), ds[Len(ds)])

Dash == <<"-">>

\* operations.map((operation, index) => ({ key, code, count, label }))
BuildSequence(draft, operations) ==
  [i \in DOMAIN operations |->
     [key |-> NumberToString(draft.roundNumber) \o Dash \o NumberToString(i - 1)
                \o Dash \o normalizeCode(operations[i].code),
      code |-> operations[i].code,
      count |-> operations[i].units,
      label |-> operations[i].label]]

\* variant: a step pushes one entry whatever its count
ExpandStepOnce(step, stepIndex) ==
  <<[key |-> step.key \o Dash \o NumberToString(stepIndex) \o Dash \o NumberToString(0),
     code |-> step.code,
     count |-> 1,
     label |-> step.label]>>

\* the entries one step pushes to expanded: one per unit, count 1 each
ExpandStep(step, stepIndex) ==
  [i \in 1..step.count |->
     [key |-> step.key \o Dash \o NumberToString(stepIndex) \o Dash \o NumberToString(i - 1),
      code |-> step.code,
      count |-> 1,
      label |-> step.label]]

\* sequence.forEach((step, stepIndex) => { for (...) expanded.push(...) })
Expand(sequence) == Flat([s \in DOMAIN sequence |-> ExpandStep(sequence[s], s - 1)])

\* operations.reduce((sum, operation) => sum + (operation.produce - operation.consume), 0)
\* (summed by halves: the sum does not depend on the grouping)
RECURSIVE StitchDelta(_)
StitchDelta(operations) ==
  IF operations = <<>> THEN 0
  ELSE IF Len(operations) = 1 THEN operations[1].produce - operations[1].consume
  ELSE StitchDelta(SubSeq(operations, 1, Len(operations) \div 2))
       + StitchDelta(SubSeq(operations, Len(operations) \div 2 + 1, Len(operations)))

\* variant: the end count is not clamped
EndCountUnclamped(startCount, stitchDelta) == startCount + stitchDelta

\* Math.max(0, startCount + stitchDelta)
EndCount(startCount, stitchDelta) == Max(0, startCount + stitchDelta)

BuildRow(draft, operations, liveStitches) ==
  LET sequence == BuildSequence(draft, operations)
      expanded == Expand(sequence)
  IN [id |-> <<"R","N","D","-">> \o NumberToString(draft.roundNumber),
      raw |-> draft.raw,
      rowLabel |-> <<"R","N","D"," ">> \o NumberToString(draft.roundNumber),
      sequence |-> sequence,
      expanded |-> expanded,
      totalStitches |-> Len(expanded),
      startCount |-> liveStitches,
      endCount |-> EndCount(liveStitches, StitchDelta(operations))]

RoundPrefix(draft) == <<"R","n","d">> \o NumberToString(draft.roundNumber) \o <<":"," ">>

UnresolvedError(draft, target) ==
  draft.raw \o <<":"," ","c","o","u","l","d"," ","n","o","t"," ","r","e","s","o","l","v","e"," ","r","e","f","e","r","e","n","c","e"," ","t","o"," ","R">> \o NumberToString(target) \o <<".">>

\* variant: the error names the draft by its raw text
NoInstructionsErrorRaw(draft) == draft.raw \o <<":"," ","n","o"," ","i","n","s","t","r","u","c","t","i","o","n","s"," ","p","a","r","s","e","d",".">>

NoInstructionsError(draft) ==
  <<"R","n","d">> \o NumberToString(draft.roundNumber) \o <<":"," ","n","o"," ","i","n","s","t","r","u","c","t","i","o","n","s"," ","p","a","r","s","e","d",".">>

\* the body the draft is expanded with: the target's body for a back-reference
ResolvedBody(draft, resolvedBodies) ==
  IF SeeMatch(draft.body).ok
    THEN MapGet(resolvedBodies, ToNumber(SeeMatch(draft.body).digits)).value
    ELSE draft.body

\* variant: only a missing entry is unresolved (has() instead of truthiness)
IsUnresolvedOnlyMissing(draft, resolvedBodies) ==
  /\ SeeMatch(draft.body).ok
  /\ ~MapGet(resolvedBodies, ToNumber(SeeMatch(draft.body).digits)).found

\* if (seeMatch) { ... if (!targetBody) { errors.push(...); return; } }
IsUnresolved(draft, resolvedBodies) ==
  /\ SeeMatch(draft.body).ok
  /\ IsFalsy(MapGet(resolvedBodies, ToNumber(SeeMatch(draft.body).digits)))

\* variant: the draft's own body is stored, not the substituted one
StoredBodyUnsubstituted(draft, resolvedBody) == draft.body

\* the body resolvedBodies.set stores for the draft's round number
StoredBody(draft, resolvedBody) == resolvedBody

\* variant: liveStitches is not advanced to the row's end count
NextLiveStitchesStale(row) == row.startCount

\* liveStitches = endCount, after a row was pushed
NextLiveStitches(row) == row.endCount

\* The locals of parsePatternRows that the callback reads and writes are
\* loc = [rows, errors, warnings, liveStitches, resolvedBodies, frames, left];
\* frames keeps, for every pushed row, the callback's constants draft,
\* resolvedBody and operations; left tells how the callback was left.

\* the callback from resolvedBodies.set on, parsed being the result of
\* parseBodyOperations for the resolved body
CallbackParsed(loc, draft, resolvedBody, parsed) ==
  LET stored == MapSet(loc.resolvedBodies, draft.roundNumber, StoredBody(draft, resolvedBody))
      opWarnings == [i \in DOMAIN parsed.warnings |-> RoundPrefix(draft) \o parsed.warnings[i]]
      row == BuildRow(draft, parsed.operations, loc.liveStitches)
  IN IF parsed.thrown # NoException
       THEN [loc EXCEPT !.resolvedBodies = stored, !.left = parsed.thrown]
     ELSE IF parsed.operations = <<>>
       THEN [loc EXCEPT !.resolvedBodies = stored,
                        !.warnings = @ \o opWarnings,
                        !.errors = Append(@, NoInstructionsError(draft)),
                        !.left = "noInstructions"]
     ELSE [loc EXCEPT !.left = "row",
                      !.resolvedBodies = stored,
                      !.warnings = @ \o opWarnings,
                      !.rows = Append(@, row),
                      !.frames = Append(@, [draft |-> draft, resolvedBody |-> resolvedBody,
                                            operations |-> parsed.operations]),
                      !.liveStitches = NextLiveStitches(row)]

\* the callback once the body of the draft is resolved
CallbackResolved(loc, draft, resolvedBody, glossaryMap) ==
  CallbackParsed(loc, draft, resolvedBody,
                 parseBodyOperations(resolvedBody, loc.liveStitches, glossaryMap))

Callback(loc, draft, glossaryMap) ==
  IF IsUnresolved(draft, loc.resolvedBodies)
    THEN [loc EXCEPT !.errors =
            Append(@, UnresolvedError(draft, ToNumber(SeeMatch(draft.body).digits))),
                     !.left = "unresolved"]
    ELSE CallbackResolved(loc, draft, ResolvedBody(draft, loc.resolvedBodies), glossaryMap)

\* variant: the warnings are returned as they were pushed
KeepAll(ws) == ws

\* Array.from(new Set(warnings)): the first occurrence of every string
RECURSIVE Dedupe(_)
Dedupe(ws) ==
  IF ws = <<>> THEN <<>>
  ELSE LET front == Dedupe(SubSeq(ws, 1, Len(ws) - 1))
       IN IF ws[Len(ws)] \in Range(front) THEN front ELSE Append(front, ws[Len(ws)])

----------------------------------------------------------------------------
(* Inputs of parsePatternRows.                                             *)

\* the lines a pattern text is written with
LineKAround == <<"R","n","d","1",",","5",":"," ","K"," ","A","r","o","u","n","d",".">>

LineDecrease == <<"R","n","d","2",":"," ","k","3","t","o","g",","," ","m","1","l"," ","R","n","d","3",":"," ","s","e","e"," ","R","n","d","1",".">>

LineChain == <<"R","n","d","3",":"," ","s","e","e"," ","R","n","d","1","."," ","R","n","d","4",":"," ","s","e","e"," ","r","n","d"," ","3">>

LineNoInstructions == <<"R","n","d","1",":"," ",","," ","R","n","d","3",":"," ","s","e","e"," ","R","n","d","1",".">>

LineRepeat == <<"R","n","d","4",":"," ","*","k","2",","," ","y","o","*",","," ","r","e","p"," ","f","r","o","m"," ","*"," ","t","o"," ","*"," ","2"," ","t","i","m","e","s",".">>

LineHugeRepeat == <<"R","n","d","2",":"," ","*","m","1","l","*",","," ","r","e","p"," ","f","r","o","m"," ","*"," ","t","o"," ","*"," ","4","2","9","4","9","6","7","2","9","6"," ","t","i","m","e","s">>

LineEmptyBody == <<"R","n","d","1",":">>

Lines ==
  {LineKAround, LineDecrease, LineChain, LineNoInstructions, LineRepeat, LineHugeRepeat,
   LineEmptyBody}

\* a pattern text has at most MaxLines lines
MaxLines == 2

RECURSIVE JoinWithNewlines(_)
JoinWithNewlines(ls) ==
  IF ls = <<>> THEN <<>>
  ELSE IF Len(ls) = 1 THEN Head(ls)
  ELSE Head(ls) \o <<"\n">> \o JoinWithNewlines(Tail(ls))

PatternTexts ==
  {JoinWithNewlines(ls) : ls \in UNION {[1..n -> Lines] : n \in 0..MaxLines}}

\* startingStitches is any integer up to MaxStartingStitches; the values
\* below 1 are the ones Math.max(1, startingStitches) replaces
MaxStartingStitches == 2

StartingStitchesValues == 0..MaxStartingStitches

GlossaryEntry(code, title) == [code |-> code, title |-> title, detail |-> <<>>]

\* an empty glossary and one with entries of DEFAULT_GLOSSARY
Glossaries ==
  {<<>>,
   <<GlossaryEntry(<<"K">>, <<"K","n","i","t">>),
     GlossaryEntry(<<"K","3","T","O","G">>, <<"K","n","i","t"," ","T","h","r","e","e"," ","T","o","g","e","t","h","e","r">>)>>}

\* parsePatternRows is called at most MaxCalls times on the same inputs
MaxCalls == 2

----------------------------------------------------------------------------
(* The state: the inputs, the locals of the running call, its result and   *)
(* the results of the earlier calls.                                       *)

VARIABLES patternText, glossary, startingStitches,
          pc, glossaryMap, drafts, cursor,
          rows, errors, warnings, liveStitches, resolvedBodies, frames,
          result, returned

inputs == <<patternText, glossary, startingStitches>>

locals == <<glossaryMap, drafts, cursor, rows, errors, warnings, liveStitches,
            resolvedBodies, frames>>

vars == <<patternText, glossary, startingStitches, pc, glossaryMap, drafts, cursor,
          rows, errors, warnings, liveStitches, resolvedBodies, frames,
          result, returned>>

\* The state of HomePage around the parser: the pattern cursor with its
\* history, the selected cell and the counters (src/unnamed/part_000), and
\* the counters with their connections (src/app/page.tsx). effectsPending and
\* pruningPending tell that a render was committed whose effects have not
\* run; performed keeps, for the operations since the last edit, the cursor
\* each of them started from; createdCounters counts the counters created,
\* whose ids `counter-${Date.now()}` follow the clock.
VARIABLES parseResult, rowIndex, stitchIndex, completedRows, rowToast, history,
          selectedCell, counters, effectsPending, performed,
          knitCounters, createdCounters, connections, connectDragRef, pruningPending

tracker == <<parseResult, rowIndex, stitchIndex, completedRows, rowToast, history,
             selectedCell, counters, effectsPending, performed>>

graph == <<knitCounters, createdCounters, connections, connectDragRef, pruningPending>>

\* useState(null) of selectedCell and useRef(null) of connectDragRef
NoCell == [row |-> -1, stitch |-> -1]

NoDrag == [fromCounterId |-> 0]

\* the state of the page that a call of the parser alone does not touch
PageAtRest ==
  /\ parseResult = [rows |-> <<>>]
  /\ rowIndex = 0
  /\ stitchIndex = 0
  /\ completedRows = 0
  /\ rowToast = <<>>
  /\ history = <<>>
  /\ selectedCell = NoCell
  /\ counters = <<>>
  /\ effectsPending = FALSE
  /\ performed = <<>>
  /\ knitCounters = <<>>
  /\ createdCounters = 0
  /\ connections = <<>>
  /\ connectDragRef = NoDrag
  /\ pruningPending = FALSE

Loc ==
  [rows |-> rows, errors |-> errors, warnings |-> warnings,
   liveStitches |-> liveStitches, resolvedBodies |-> resolvedBodies,
   frames |-> frames, left |-> ""]

NoResult == [thrown |-> NoException]

\* const resolvedBodies = new Map<number, string>() of a new call
FreshResolvedBodies == EmptyMap

\* variant: liveStitches lives outside the call and is not set again
StaleLiveStitches(start) == liveStitches

\* variant: the starting count is taken as given
InitialLiveStitchesUnclamped(start) == start

\* let liveStitches = Math.max(1, startingStitches)
InitialLiveStitches(start) == Max(1, start)

\* the locals of a call before its first draft
InitialLoc(live) ==
  [rows |-> <<>>, errors |-> <<>>, warnings |-> <<>>,
   liveStitches |-> live, resolvedBodies |-> FreshResolvedBodies,
   frames |-> <<>>, left |-> ""]

\* drafts.forEach(callback) from the given locals on, as a function
RECURSIVE FoldDrafts(_, _, _)
FoldDrafts(ds, loc, gm) ==
  IF ds = <<>> \/ loc.left = RangeError THEN loc
  ELSE FoldDrafts(Tail(ds), Callback(loc, Head(ds), gm), gm)

Init ==
  /\ patternText \in PatternTexts
  /\ glossary \in Glossaries
  /\ startingStitches \in StartingStitchesValues
  /\ pc = "idle"
  /\ glossaryMap = GlossaryMapOf(<<>>)
  /\ drafts = <<>>
  /\ cursor = 1
  /\ rows = <<>>
  /\ errors = <<>>
  /\ warnings = <<>>
  /\ liveStitches = 1
  /\ resolvedBodies = EmptyMap
  /\ frames = <<>>
  /\ result = NoResult
  /\ returned = <<>>
  /\ PageAtRest

\* const drafts = extracted.drafts.sort(...); const errors = [...extracted.errors]
Extracted(extracted) ==
  /\ drafts' = SortDrafts(extracted.drafts)
  /\ errors' = extracted.errors

\* parsePatternRows up to the start of drafts.sort(...).forEach
Call ==
  /\ pc = "idle"
  /\ glossaryMap' = GlossaryMapOf(glossary)
  /\ Extracted(parseRoundDrafts(patternText))
  /\ rows' = <<>>
  /\ warnings' = <<>>
  /\ frames' = <<>>
  /\ liveStitches' = InitialLiveStitches(startingStitches)
  /\ resolvedBodies' = FreshResolvedBodies
  /\ cursor' = 1
  /\ pc' = "forEach"
  /\ UNCHANGED <<inputs, result, returned, tracker, graph>>

\* the forEach is at a draft
AtCursor == pc = "forEach" /\ cursor <= Len(drafts)

\* the locals after one run of the callback that is left the given way
Left(left, next) ==
  /\ next.left = left
  /\ rows' = next.rows
  /\ errors' = next.errors
  /\ warnings' = next.warnings
  /\ liveStitches' = next.liveStitches
  /\ resolvedBodies' = next.resolvedBodies
  /\ frames' = next.frames

\* the callback returns early: unresolved back-reference
SkipUnresolved ==
  /\ AtCursor
  /\ Left("unresolved", Callback(Loc, drafts[cursor], glossaryMap))
  /\ cursor' = cursor + 1
  /\ UNCHANGED <<inputs, pc, glossaryMap, drafts, result, returned, tracker, graph>>

\* the callback returns early: no instructions parsed
SkipNoInstructions ==
  /\ AtCursor
  /\ Left("noInstructions", Callback(Loc, drafts[cursor], glossaryMap))
  /\ cursor' = cursor + 1
  /\ UNCHANGED <<inputs, pc, glossaryMap, drafts, result, returned, tracker, graph>>

\* the callback pushes a row
PushRow ==
  /\ AtCursor
  /\ Left("row", Callback(Loc, drafts[cursor], glossaryMap))
  /\ cursor' = cursor + 1
  /\ UNCHANGED <<inputs, pc, glossaryMap, drafts, result, returned, tracker, graph>>

\* parseBodyOperations throws and the exception leaves parsePatternRows
Throw ==
  /\ AtCursor
  /\ Left(RangeError, Callback(Loc, drafts[cursor], glossaryMap))
  /\ pc' = "thrown"
  /\ result' = [thrown |-> RangeError]
  /\ UNCHANGED <<inputs, cursor, glossaryMap, drafts, returned, tracker, graph>>

\* return { rows, errors, warnings: Array.from(new Set(warnings)) }
Return ==
  /\ pc = "forEach"
  /\ cursor > Len(drafts)
  /\ pc' = "returned"
  /\ result' = [rows |-> rows, errors |-> errors, warnings |-> Dedupe(warnings),
                thrown |-> NoException]
  /\ UNCHANGED <<inputs, locals, returned, tracker, graph>>

\* the caller evaluates parsePatternRows again with the same arguments
Recompute ==
  /\ pc \in {"returned", "thrown"}
  /\ Len(returned) < MaxCalls - 1
  /\ returned' = Append(returned, result)
  /\ pc' = "idle"
  /\ UNCHANGED <<inputs, locals, result, tracker, graph>>

Next ==
  \/ Call
  \/ SkipUnresolved
  \/ SkipNoInstructions
  \/ PushRow
  \/ Throw
  \/ Return
  \/ Recompute

Spec == Init /\ [][Next]_vars


----------------------------------------------------------------------------
(* A second set of inputs: lines out of order, equal round numbers with    *)
(* different bodies, forward and self references, continuation lines, and  *)
(* rows of one token of every shape the classifier knows.                  *)

LineUnknownTwice == <<"R","n","d","2",":"," ","m","1","l",","," ","m","1","l"," ","R","n","d","3",":"," ","s","e","e"," ","R","n","d","2",".">>

LineForward == <<"R","n","d","2",":"," ","y","o"," ","R","n","d","1",":"," ","s","e","e"," ","R","n","d","2",".">>

LineSelf == <<"R","n","d","3",":"," ","s","e","e"," ","R","n","d","3">>

LineContinuation == <<"k","2",","," ","m","1","l">>

LineZeroRepeat == <<"R","n","d","5",":"," ","*","k","2","t","o","g",","," ","y","o","*",","," ","r","e","p"," ","f","r","o","m"," ","*"," ","t","o"," ","*"," ","0"," ","t","i","m","e","s",".">>

LineNote == <<"N","o","t","e",":"," ","w","o","r","k"," ","l","o","o","s","e","l","y">>

FormLines ==
  {LineUnknownTwice, LineForward, LineSelf, LineContinuation, LineZeroRepeat,
   LineNote}

\* texts of one line that make the fold throw or reject a draft
\* `k around` as an item of a list, at two live counts
LineKAroundItem == <<"R","n","d","1",":"," ","k"," ","a","r","o","u","n","d",","," ","y","o"," ","R","n","d","2",":"," ","K"," ","A","r","o","u","n","d",".",","," ","p">>

\* `k around` as an item of the INNER of a repeat block
LineKAroundInner == <<"R","n","d","1",":"," ","*","y","o",","," ","K"," "," ","A","r","o","u","n","d","*",","," ","r","e","p"," ","f","r","o","m"," ","*"," ","t","o"," ","*"," ","2"," ","t","i","m","e","s",".">>

SingleLineTexts ==
  {LineHugeRepeat, LineEmptyBody, LineKAround, LineKAroundItem, LineKAroundInner}

TokenPlace == <<"p","l","a","c","e"," ","2"," ","s","t","s"," ","o","n"," ","c","n"," ","a","n","d"," ","h","o","l","d"," ","t","o"," ","t","h","e"," ","b","a","c","k">>

TokenFromCN == <<"k","2"," ","f","r","o","m"," ","c","n">>

TokenK1yok1 == <<"K","1","Y","O","K","1">>

TokenYo == <<"y","o">>

TokenCdd == <<"c","d","d">>

TokenKTog == <<"k","2","t","o","g">>

TokenKTogTbl == <<"k","3","t","o","g"," ","t","l","b"," ","f","r","o","m"," ","c","n">>

TokenSlip == <<"s","l","2">>

TokenKnit == <<"k","2">>

TokenPurl == <<"p","3">>

TokenK == <<"k">>

TokenP == <<"P">>

TokenKnitZero == <<"k","0">>

TokenSlipZero == <<"s","l","0">>

TokenKTogZero == <<"k","0","t","o","g">>

TokenUnknown == <<"m","1","l">>

Tokens ==
  {TokenPlace, TokenFromCN, TokenK1yok1, TokenYo, TokenCdd, TokenKTog, TokenKTogTbl,
   TokenSlip, TokenKnit, TokenPurl, TokenK, TokenP, TokenKnitZero, TokenSlipZero,
   TokenKTogZero, TokenUnknown}

\* a row is written with at most MaxTokens tokens
MaxTokens == 2

\* m times the token, separated by commas
RECURSIVE TokenRow(_, _)
TokenRow(token, m) ==
  IF m = 0 THEN <<>>
  ELSE IF m = 1 THEN token
  ELSE token \o <<","," ">> \o TokenRow(token, m - 1)

\* a text of one round whose body is a row of one token
TokenTexts == {<<"R","n","d","1",":"," ">> \o TokenRow(t, m) : t \in Tokens, m \in 1..MaxTokens}

FormTexts ==
  {JoinWithNewlines(ls) : ls \in UNION {[1..n -> FormLines] : n \in 0..MaxLines}}
    \cup TokenTexts \cup SingleLineTexts

InitForms ==
  /\ patternText \in FormTexts
  /\ glossary \in Glossaries
  /\ startingStitches \in StartingStitchesValues
  /\ pc = "idle"
  /\ glossaryMap = GlossaryMapOf(<<>>)
  /\ drafts = <<>>
  /\ cursor = 1
  /\ rows = <<>>
  /\ errors = <<>>
  /\ warnings = <<>>
  /\ liveStitches = 1
  /\ resolvedBodies = EmptyMap
  /\ frames = <<>>
  /\ result = NoResult
  /\ returned = <<>>
  /\ PageAtRest

SpecForms == InitForms /\ [][Next]_vars

----------------------------------------------------------------------------
(* A third set of inputs: repeat blocks, one with a count above 10,000.    *)

LineOverCap == <<"R","n","d","2",":"," ","*","k","*",","," ","r","e","p"," ","f","r","o","m"," ","*"," ","t","o"," ","*"," ","1","0","0","0","1"," ","t","i","m","e","s",".">>

\* texts of one line: that count, smaller and larger ones, and the lines
\* that make the fold reject a draft and skip a reference
CapTexts ==
  {LineOverCap, LineRepeat, LineZeroRepeat, LineHugeRepeat, LineEmptyBody,
   LineSelf, LineChain}

InitCap ==
  /\ patternText \in CapTexts
  /\ glossary \in Glossaries
  /\ startingStitches \in StartingStitchesValues
  /\ pc = "idle"
  /\ glossaryMap = GlossaryMapOf(<<>>)
  /\ drafts = <<>>
  /\ cursor = 1
  /\ rows = <<>>
  /\ errors = <<>>
  /\ warnings = <<>>
  /\ liveStitches = 1
  /\ resolvedBodies = EmptyMap
  /\ frames = <<>>
  /\ result = NoResult
  /\ returned = <<>>
  /\ PageAtRest

SpecCap == InitCap /\ [][Next]_vars


----------------------------------------------------------------------------
(* HomePage (src/unnamed/part_000): the pattern cursor, its history, the   *)
(* selected cell and the counters. A handler runs on the state of the last *)
(* committed render; React runs the effects of a render before it handles  *)
(* the next event, so a handler starts only when no effect is pending.     *)

\* what the page reads of a row of parseResult
TrackedRow(row) == [rowLabel |-> row.rowLabel, totalStitches |-> row.totalStitches]

TrackedRows(rs) == [i \in DOMAIN rs |-> TrackedRow(rs[i])]

\* useMemo(() => parsePatternRows(patternText, glossary, startingStitches))
ParseResultOf(text, gl, start) ==
  [rows |-> TrackedRows(FoldDrafts(SortDrafts(parseRoundDrafts(text).drafts),
                                   InitialLoc(InitialLiveStitches(start)),
                                   GlossaryMapOf(gl)).rows)]

\* the texts typed into the pattern textarea: no row, two rows of one and
\* two stitches, three rows of one stitch
TextNoRow == <<>>

TextTwoRows == <<"R","n","d","1",":"," ","k"," ","R","n","d","2",":"," ","k",","," ","y","o">>

TextThreeRows == <<"R","n","d","1",":"," ","k"," ","R","n","d","2",":"," ","y","o"," ","R","n","d","3",":"," ","k">>

TrackerTexts == {TextNoRow, TextTwoRows, TextThreeRows}

\* the steps of the buttons +1, +5 and +10
Steps == {1, 5, 10}

\* the amounts of the buttons -1 and +1 of a counter
Amounts == {-1, 1}

\* the operations of the page are followed while history has fewer entries
MaxHistory == 2

\* rows are counted as completed up to this number
MaxCompletedRows == 2

\* at most this many counters are added, and a counter is followed up to
\* this value
MaxCounters == 2

MaxCounterValue == 2

\* .slice(0, 200) of pushHistoryState
HistoryLimit == 200

PatternComplete == <<"P","a","t","t","e","r","n"," ","c","o","m","p","l","e","t","e",".">>

\* `${row.rowLabel} complete. Now on ${next.rowLabel}.`
RowCompleteToast(row, next) ==
  row.rowLabel \o <<" ","c","o","m","p","l","e","t","e","."," ","N","o","w"," ","o","n"," ">> \o next.rowLabel \o <<".">>

\* `Moved to ${row.rowLabel}.`
MovedToRowToast(row) == <<"M","o","v","e","d"," ","t","o"," ">> \o row.rowLabel \o <<".">>

\* `Moved to ${row?.rowLabel}, stitch ${stitch + 1}.`
MovedToCellToast(rs, cell) ==
  <<"M","o","v","e","d"," ","t","o"," ">> \o (IF cell.row + 1 \in DOMAIN rs THEN rs[cell.row + 1].rowLabel
                     ELSE <<"u","n","d","e","f","i","n","e","d">>)
    \o <<","," ","s","t","i","t","c","h"," ">> \o NumberToString(cell.stitch + 1) \o <<".">>

\* the cursor, the toast and the history as one record: what the cursor
\* operations read and write
Page ==
  [rowIndex |-> rowIndex, stitchIndex |-> stitchIndex, completedRows |-> completedRows,
   rowToast |-> rowToast, history |-> history, selectedCell |-> selectedCell]

\* { rowIndex, stitchIndex, completedRows }
Snapshot(p) ==
  [rowIndex |-> p.rowIndex, stitchIndex |-> p.stitchIndex, completedRows |-> p.completedRows]

\* array.slice(0, n)
Take(s, n) == SubSeq(s, 1, IF Len(s) < n THEN Len(s) ELSE n)

\* variant: the entry is put at the end of the history
pushHistoryStateAtEnd(p) ==
  [p EXCEPT !.history = Take(Append(@, Snapshot(p)), HistoryLimit)]

\* setHistory((prev) => [{ rowIndex, stitchIndex, completedRows }, ...prev].slice(0, 200))
pushHistoryState(p) ==
  [p EXCEPT !.history = Take(<<Snapshot(p)>> \o @, HistoryLimit)]

\* the for loop of incrementPatternBy with i passes left
RECURSIVE AdvanceLoop(_, _, _)
AdvanceLoop(rs, p, i) ==
  IF i = 0 THEN p
  ELSE IF p.rowIndex + 1 \notin DOMAIN rs THEN p
  ELSE IF p.rowIndex = Len(rs) - 1 /\ p.stitchIndex >= rs[p.rowIndex + 1].totalStitches - 1
    THEN [p EXCEPT !.rowToast = PatternComplete]
  ELSE IF p.stitchIndex < rs[p.rowIndex + 1].totalStitches - 1
    THEN AdvanceLoop(rs, [p EXCEPT !.stitchIndex = @ + 1], i - 1)
  ELSE IF p.rowIndex < Len(rs) - 1
    THEN AdvanceLoop(rs, [p EXCEPT !.completedRows = @ + 1,
                                   !.rowIndex = @ + 1,
                                   !.stitchIndex = 0,
                                   !.rowToast = RowCompleteToast(rs[p.rowIndex + 1],
                                                                 rs[p.rowIndex + 2])],
                     i - 1)
  ELSE AdvanceLoop(rs, [p EXCEPT !.completedRows = @ + 1], i - 1)

\* variant: the loop runs once whatever the step
AdvanceOnce(rs, p, i) == AdvanceLoop(rs, p, 1)

AdvanceBy(rs, p, i) == AdvanceLoop(rs, p, i)

\* incrementPatternBy(step) records a history entry
IncrementRecords(rs, step) == rs # <<>> /\ step >= 1

incrementPatternBy(rs, p, step) ==
  IF ~IncrementRecords(rs, step) THEN p
  ELSE AdvanceBy(rs, pushHistoryState(p), step)

moveToNextRow(rs, p) ==
  IF rs = <<>> THEN p
  ELSE IF p.rowIndex >= Len(rs) - 1
    THEN [pushHistoryState(p) EXCEPT !.rowToast = PatternComplete]
  ELSE [pushHistoryState(p) EXCEPT !.rowIndex = p.rowIndex + 1,
                                   !.stitchIndex = 0,
                                   !.completedRows = p.rowIndex + 1,
                                   !.selectedCell = NoCell,
                                   !.rowToast = MovedToRowToast(rs[p.rowIndex + 2])]

undoPatternStep(p) ==
  IF p.history = <<>> THEN p
  ELSE [p EXCEPT !.rowIndex = Head(p.history).rowIndex,
                 !.stitchIndex = Head(p.history).stitchIndex,
                 !.completedRows = Head(p.history).completedRows,
                 !.history = Tail(p.history)]

moveToSelectedCell(rs, p) ==
  IF p.selectedCell = NoCell THEN p
  ELSE [pushHistoryState(p) EXCEPT !.rowIndex = p.selectedCell.row,
                                   !.stitchIndex = p.selectedCell.stitch,
                                   !.completedRows = p.selectedCell.row,
                                   !.rowToast = MovedToCellToast(rs, p.selectedCell),
                                   !.selectedCell = NoCell]

\* variant: a stitch index equal to the length of the row is left alone
ClampCursorPastEnd(rs, p) ==
  IF rs = <<>> THEN [p EXCEPT !.rowIndex = 0, !.stitchIndex = 0]
  ELSE IF p.rowIndex > Len(rs) - 1 THEN [p EXCEPT !.rowIndex = 0, !.stitchIndex = 0]
  ELSE IF p.stitchIndex > rs[p.rowIndex + 1].totalStitches
    THEN [p EXCEPT !.stitchIndex = Max(0, rs[p.rowIndex + 1].totalStitches - 1)]
  ELSE p

\* the effect of [parseResult.rows, rowIndex, stitchIndex]
ClampCursor(rs, p) ==
  IF rs = <<>> THEN [p EXCEPT !.rowIndex = 0, !.stitchIndex = 0]
  ELSE IF p.rowIndex > Len(rs) - 1 THEN [p EXCEPT !.rowIndex = 0, !.stitchIndex = 0]
  ELSE IF p.stitchIndex > rs[p.rowIndex + 1].totalStitches - 1
    THEN [p EXCEPT !.stitchIndex = Max(0, rs[p.rowIndex + 1].totalStitches - 1)]
  ELSE p

\* the effect of [parseResult.rows, selectedCell], on the selection of the
\* render the effects belong to
DropSelection(rs, cell) ==
  IF cell = NoCell THEN cell
  ELSE IF cell.row + 1 \notin DOMAIN rs THEN NoCell
  ELSE IF cell.stitch > rs[cell.row + 1].totalStitches - 1 THEN NoCell
  ELSE cell

\* the two effects of one render: both read the state of that render
AfterEffects(rs, p) == [ClampCursor(rs, p) EXCEPT !.selectedCell = DropSelection(rs, p.selectedCell)]

\* the state after a handler or an effect
Becomes(p) ==
  /\ rowIndex' = p.rowIndex
  /\ stitchIndex' = p.stitchIndex
  /\ completedRows' = p.completedRows
  /\ rowToast' = p.rowToast
  /\ history' = p.history
  /\ selectedCell' = p.selectedCell

parserState == <<glossary, startingStitches, pc, locals, result, returned>>

\* an operation is followed while the bounds of the model allow its result
Followed(p) ==
  /\ Len(p.history) <= MaxHistory
  /\ p.completedRows <= MaxCompletedRows
  /\ Len(performed) < MaxHistory + 1

\* the cursor an operation started from, and whether the operation recorded
\* a history entry
Performed(p, recorded) ==
  <<[before |-> Snapshot(p), recorded |-> recorded]>> \o performed

\* what is left of performed after an undo: the operations before the
\* latest one that recorded an entry
RECURSIVE Undone(_)
Undone(ps) ==
  IF ps = <<>> THEN ps
  ELSE IF Head(ps).recorded THEN Tail(ps)
  ELSE Undone(Tail(ps))

\* onChange of the pattern textarea: setPatternText(event.target.value)
EditPattern ==
  /\ ~effectsPending
  /\ \E text \in TrackerTexts \ {patternText} :
       /\ patternText' = text
       /\ parseResult' = ParseResultOf(text, glossary, startingStitches)
  /\ effectsPending' = TRUE
  /\ performed' = <<>>
  /\ UNCHANGED <<rowIndex, stitchIndex, completedRows, rowToast, history, selectedCell,
                 counters, parserState, graph>>

\* onClick of +1, +5, +10
IncrementPatternBy(step) ==
  /\ ~effectsPending
  /\ Followed(incrementPatternBy(parseResult.rows, Page, step))
  /\ Becomes(incrementPatternBy(parseResult.rows, Page, step))
  /\ performed' = Performed(Page, IncrementRecords(parseResult.rows, step))
  /\ effectsPending' = TRUE
  /\ UNCHANGED <<patternText, parseResult, counters, parserState, graph>>

\* onClick of Next Row
MoveToNextRow ==
  /\ ~effectsPending
  /\ Followed(moveToNextRow(parseResult.rows, Page))
  /\ Becomes(moveToNextRow(parseResult.rows, Page))
  /\ performed' = Performed(Page, parseResult.rows # <<>>)
  /\ effectsPending' = TRUE
  /\ UNCHANGED <<patternText, parseResult, counters, parserState, graph>>

\* onClick of Undo
UndoPatternStep ==
  /\ ~effectsPending
  /\ Becomes(undoPatternStep(Page))
  /\ performed' = Undone(performed)
  /\ effectsPending' = TRUE
  /\ UNCHANGED <<patternText, parseResult, counters, parserState, graph>>

\* onClick of a cell of the timeline: the cells of the rows are rendered
SelectCell ==
  /\ ~effectsPending
  /\ \E r \in DOMAIN parseResult.rows :
       \E s \in 0..(parseResult.rows[r].totalStitches - 1) :
         selectedCell' = [row |-> r - 1, stitch |-> s]
  /\ effectsPending' = TRUE
  /\ UNCHANGED <<patternText, parseResult, rowIndex, stitchIndex, completedRows, rowToast,
                 history, counters, performed, parserState, graph>>

\* onClick of Move Here, the button in the popover of the selected cell
MoveToSelectedCell ==
  /\ ~effectsPending
  /\ selectedCell # NoCell
  /\ Followed(moveToSelectedCell(parseResult.rows, Page))
  /\ Becomes(moveToSelectedCell(parseResult.rows, Page))
  /\ performed' = Performed(Page, TRUE)
  /\ effectsPending' = TRUE
  /\ UNCHANGED <<patternText, parseResult, counters, parserState, graph>>

\* the effects of the committed render; a render they cause has effects again
RunEffects ==
  /\ effectsPending
  /\ Becomes(AfterEffects(parseResult.rows, Page))
  /\ effectsPending' = (AfterEffects(parseResult.rows, Page) # Page)
  /\ UNCHANGED <<patternText, parseResult, counters, performed, parserState, graph>>

\* the timer of the toast: setRowToast("") after 1600 ms
ClearToast ==
  /\ ~effectsPending
  /\ rowToast # <<>>
  /\ rowToast' = <<>>
  /\ UNCHANGED <<patternText, parseResult, rowIndex, stitchIndex, completedRows, history,
                 selectedCell, counters, effectsPending, performed, parserState, graph>>

\* the page with one of the texts, before the effects of its first render
InitTracker ==
  /\ patternText \in TrackerTexts
  /\ glossary = <<>>
  /\ startingStitches = 1
  /\ pc = "idle"
  /\ glossaryMap = GlossaryMapOf(<<>>)
  /\ drafts = <<>>
  /\ cursor = 1
  /\ rows = <<>>
  /\ errors = <<>>
  /\ warnings = <<>>
  /\ liveStitches = 1
  /\ resolvedBodies = EmptyMap
  /\ frames = <<>>
  /\ result = NoResult
  /\ returned = <<>>
  /\ parseResult = ParseResultOf(patternText, glossary, startingStitches)
  /\ rowIndex = 0
  /\ stitchIndex = 0
  /\ completedRows = 0
  /\ rowToast = <<>>
  /\ history = <<>>
  /\ selectedCell = NoCell
  /\ counters = <<>>
  /\ effectsPending = TRUE
  /\ performed = <<>>
  /\ knitCounters = <<>>
  /\ createdCounters = 0
  /\ connections = <<>>
  /\ connectDragRef = NoDrag
  /\ pruningPending = FALSE

NextTracker ==
  \/ EditPattern
  \/ \E step \in Steps : IncrementPatternBy(step)
  \/ MoveToNextRow
  \/ UndoPatternStep
  \/ SelectCell
  \/ MoveToSelectedCell
  \/ RunEffects
  \/ ClearToast

allVars == <<vars, tracker, graph>>

SpecTracker == InitTracker /\ [][NextTracker]_allVars

----------------------------------------------------------------------------
(* The counters of the page (src/unnamed/part_000).                        *)

\* `counter-${Date.now()}`: the ids are numbered in the order of creation
NewCounter(prev) == [id |-> Len(prev) + 1, value |-> 0, contributes |-> FALSE]

\* onClick of New Counter
AddCounter ==
  /\ ~effectsPending
  /\ Len(counters) < MaxCounters
  /\ counters' = Append(counters, NewCounter(counters))
  /\ UNCHANGED <<patternText, parseResult, rowIndex, stitchIndex, completedRows, rowToast,
                 history, selectedCell, effectsPending, performed, parserState, graph>>

\* onChange of the checkbox Include of a counter
ToggleContributes ==
  /\ ~effectsPending
  /\ \E i \in DOMAIN counters :
       counters' = [counters EXCEPT ![i].contributes = ~counters[i].contributes]
  /\ UNCHANGED <<patternText, parseResult, rowIndex, stitchIndex, completedRows, rowToast,
                 history, selectedCell, effectsPending, performed, parserState, graph>>

\* the updater of setCounters in incrementCounter
IncrementedCounters(prev, counterId, amount) ==
  [i \in DOMAIN prev |->
     IF prev[i].id # counterId THEN prev[i]
     ELSE [prev[i] EXCEPT !.value = Max(0, prev[i].value + amount)]]

\* what the updater assigns to shouldAdvancePattern when it runs
UpdaterSetsAdvance(prev, counterId, amount) ==
  \E i \in DOMAIN prev :
    prev[i].id = counterId /\ prev[i].contributes /\ amount > 0

\* onClick of -1 and +1 of a counter. React runs the updater of setCounters
\* inside the call of setCounters when the component has no update queued,
\* and during the next render otherwise; shouldAdvancePattern is read right
\* after the call, so it is set then only when the updater has run (eager).
IncrementCounter(counterId, amount) ==
  /\ ~effectsPending
  /\ \E i \in DOMAIN counters : counters[i].id = counterId
  /\ counters' = IncrementedCounters(counters, counterId, amount)
  /\ \A i \in DOMAIN counters : counters'[i].value <= MaxCounterValue
  /\ \E eager \in BOOLEAN :
       IF eager /\ UpdaterSetsAdvance(counters, counterId, amount)
         THEN /\ Followed(incrementPatternBy(parseResult.rows, Page, amount))
              /\ Becomes(incrementPatternBy(parseResult.rows, Page, amount))
              /\ performed' = Performed(Page, IncrementRecords(parseResult.rows, amount))
         ELSE /\ Becomes(Page)
              /\ performed' = performed
  /\ effectsPending' = TRUE
  /\ UNCHANGED <<patternText, parseResult, parserState, graph>>

\* the page with a pattern of two rows and no counter
InitCounters ==
  /\ patternText = TextTwoRows
  /\ glossary = <<>>
  /\ startingStitches = 1
  /\ pc = "idle"
  /\ glossaryMap = GlossaryMapOf(<<>>)
  /\ drafts = <<>>
  /\ cursor = 1
  /\ rows = <<>>
  /\ errors = <<>>
  /\ warnings = <<>>
  /\ liveStitches = 1
  /\ resolvedBodies = EmptyMap
  /\ frames = <<>>
  /\ result = NoResult
  /\ returned = <<>>
  /\ parseResult = ParseResultOf(patternText, glossary, startingStitches)
  /\ rowIndex = 0
  /\ stitchIndex = 0
  /\ completedRows = 0
  /\ rowToast = <<>>
  /\ history = <<>>
  /\ selectedCell = NoCell
  /\ counters = <<>>
  /\ effectsPending = TRUE
  /\ performed = <<>>
  /\ knitCounters = <<>>
  /\ createdCounters = 0
  /\ connections = <<>>
  /\ connectDragRef = NoDrag
  /\ pruningPending = FALSE

NextCounters ==
  \/ AddCounter
  \/ ToggleContributes
  \/ \E i \in 1..MaxCounters : \E amount \in Amounts : IncrementCounter(i, amount)
  \/ UndoPatternStep
  \/ RunEffects

SpecCounters == InitCounters /\ [][NextCounters]_allVars

----------------------------------------------------------------------------
(* HomePage (src/app/page.tsx): the counters and their connections.        *)

\* at most this many counters are created
MaxKnitCounters == 3

\* the graphs a connected increment is applied to have at most this many
\* connections
MaxConnections == 4

\* a counter is followed up to this value
MaxKnitValue == 2

\* the amounts a connected increment is applied with
IncrementAmounts == {-1, 0, 2}

KnitCounter(id) == [id |-> id, value |-> 0]

CounterConnection(from, to) == [fromCounterId |-> from, toCounterId |-> to]

\* new Set(counters.map((counter) => counter.id))
CounterIds(cs) == {cs[i].id : i \in DOMAIN cs}

\* outgoing.get(id) ?? []: the targets of the connections from id, in the
\* order of the connections
RECURSIVE Outgoing(_, _)
Outgoing(conns, id) ==
  IF conns = <<>> THEN <<>>
  ELSE IF Head(conns).fromCounterId = id
    THEN <<Head(conns).toCounterId>> \o Outgoing(Tail(conns), id)
  ELSE Outgoing(Tail(conns), id)

\* for (const nextId of outgoing.get(id) ?? []) { ... }
RECURSIVE VisitTargets(_, _, _)
VisitTargets(targets, visited, queue) ==
  IF targets = <<>> THEN [visited |-> visited, queue |-> queue]
  ELSE IF Head(targets) \in visited THEN VisitTargets(Tail(targets), visited, queue)
  ELSE VisitTargets(Tail(targets), visited \cup {Head(targets)},
                    Append(queue, Head(targets)))

Visit(conns, visited, queue) ==
  VisitTargets(Outgoing(conns, Head(queue)), visited, Tail(queue))

\* while (queue.length > 0) { const id = queue.shift(); ... }; the ids are
\* not empty strings, so no id is skipped
RECURSIVE Traverse(_, _, _)
Traverse(conns, visited, queue) ==
  IF queue = <<>> THEN visited
  ELSE Traverse(conns, Visit(conns, visited, queue).visited,
                Visit(conns, visited, queue).queue)

\* variant: only the targets of the source are visited
VisitedDirect(conns, sourceCounterId) ==
  VisitTargets(Outgoing(conns, sourceCounterId), {sourceCounterId}, <<>>).visited

\* const visited = new Set([sourceCounterId]); const queue = [sourceCounterId]
Visited(conns, sourceCounterId) ==
  Traverse(conns, {sourceCounterId}, <<sourceCounterId>>)

\* setCounters((prev) => prev.map(...)) of applyConnectedIncrement
applyConnectedIncrement(prev, conns, sourceCounterId, amount) ==
  IF amount <= 0 THEN prev
  ELSE [i \in DOMAIN prev |->
          IF prev[i].id \notin Visited(conns, sourceCounterId) THEN prev[i]
          ELSE [prev[i] EXCEPT !.value = prev[i].value + amount]]

applyCounterIncrement(prev, conns, counterId, amount) ==
  applyConnectedIncrement(prev, conns, counterId, amount)

\* prev.filter((item) => item.id !== counter.id)
WithoutCounter(cs, id) ==
  SelectSeq(cs, LAMBDA item : item.id # id)

\* prev.filter((item) => item.fromCounterId !== counter.id && item.toCounterId !== counter.id)
WithoutConnectionsOf(conns, id) ==
  SelectSeq(conns, LAMBDA item : item.fromCounterId # id /\ item.toCounterId # id)

\* prev.filter((edge) => ids.has(edge.fromCounterId) && ids.has(edge.toCounterId))
Pruned(conns, ids) ==
  SelectSeq(conns, LAMBDA edge : edge.fromCounterId \in ids /\ edge.toCounterId \in ids)

\* the updater of setConnections in handlePointerUp
Connected(prev, from, to) ==
  IF \E i \in DOMAIN prev : prev[i].fromCounterId = from /\ prev[i].toCounterId = to
    THEN prev
    ELSE Append(prev, CounterConnection(from, to))

trackerState == <<patternText, parserState, tracker>>

\* addCounter: setCounters((prev) => [...prev, { id: `counter-${Date.now()}`, ... }])
AddKnitCounter ==
  /\ ~pruningPending
  /\ createdCounters < MaxKnitCounters
  /\ createdCounters' = createdCounters + 1
  /\ knitCounters' = Append(knitCounters, KnitCounter(createdCounters + 1))
  /\ pruningPending' = TRUE
  /\ UNCHANGED <<connections, connectDragRef, trackerState>>

\* onClick of the button x of a counter
RemoveKnitCounter ==
  /\ ~pruningPending
  /\ \E id \in CounterIds(knitCounters) :
       /\ knitCounters' = WithoutCounter(knitCounters, id)
       /\ connections' = WithoutConnectionsOf(connections, id)
  /\ pruningPending' = TRUE
  /\ UNCHANGED <<createdCounters, connectDragRef, trackerState>>

\* onPointerDown of the output node of a counter
StartConnectionDrag ==
  /\ ~pruningPending
  /\ \E id \in CounterIds(knitCounters) : connectDragRef' = [fromCounterId |-> id]
  /\ UNCHANGED <<knitCounters, createdCounters, connections, pruningPending, trackerState>>

\* the end of handlePointerUp: the pointer is released over the input node
\* of a counter (toCounterId) or elsewhere (0)
HandlePointerUp ==
  /\ ~pruningPending
  /\ connectDragRef # NoDrag
  /\ \E toCounterId \in CounterIds(knitCounters) \cup {0} :
       connections' =
         IF toCounterId # 0 /\ toCounterId # connectDragRef.fromCounterId
           THEN Connected(connections, connectDragRef.fromCounterId, toCounterId)
           ELSE connections
  /\ connectDragRef' = NoDrag
  /\ UNCHANGED <<knitCounters, createdCounters, pruningPending, trackerState>>

\* the effect of [counters]
PruneConnections ==
  /\ pruningPending
  /\ connections' = Pruned(connections, CounterIds(knitCounters))
  /\ pruningPending' = FALSE
  /\ UNCHANGED <<knitCounters, createdCounters, connectDragRef, trackerState>>

\* onClick of +1, +5, +10 of a counter, and setCounterValue
ApplyCounterIncrement ==
  /\ ~pruningPending
  /\ \E id \in CounterIds(knitCounters) : \E amount \in IncrementAmounts :
       knitCounters' = applyCounterIncrement(knitCounters, connections, id, amount)
  /\ \A i \in DOMAIN knitCounters : knitCounters'[i].value <= MaxKnitValue
  /\ UNCHANGED <<createdCounters, connections, connectDragRef, pruningPending, trackerState>>

\* the page without counters
InitConnections ==
  /\ patternText \in {TextNoRow}
  /\ glossary = <<>>
  /\ startingStitches = 1
  /\ pc = "idle"
  /\ glossaryMap = GlossaryMapOf(<<>>)
  /\ drafts = <<>>
  /\ cursor = 1
  /\ rows = <<>>
  /\ errors = <<>>
  /\ warnings = <<>>
  /\ liveStitches = 1
  /\ resolvedBodies = EmptyMap
  /\ frames = <<>>
  /\ result = NoResult
  /\ returned = <<>>
  /\ PageAtRest

NextConnections ==
  \/ AddKnitCounter
  \/ RemoveKnitCounter
  \/ StartConnectionDrag
  \/ HandlePointerUp
  \/ PruneConnections

SpecConnections == InitConnections /\ [][NextConnections]_allVars

\* the connections between different counters of 1..n
AllConnections(n) ==
  {CounterConnection(from, to) : from \in 1..n, to \in (1..n)} \
    {CounterConnection(id, id) : id \in 1..n}

\* a set of connections as a list, ordered by source and target
RECURSIVE ListOf(_)
ListOf(edges) ==
  IF edges = {} THEN <<>>
  ELSE LET first == CHOOSE e \in edges :
                      \A f \in edges :
                        \/ e.fromCounterId < f.fromCounterId
                        \/ e.fromCounterId = f.fromCounterId
                             /\ e.toCounterId <= f.toCounterId
       IN <<first>> \o ListOf(edges \ {first})

\* the graphs of at most MaxConnections connections
Graphs ==
  {ListOf(edges) : edges \in {es \in SUBSET AllConnections(MaxKnitCounters) :
                                Cardinality(es) <= MaxConnections}}

\* MaxKnitCounters counters at 0 with the connections of one of the graphs
InitIncrement ==
  /\ patternText \in {TextNoRow}
  /\ glossary = <<>>
  /\ startingStitches = 1
  /\ pc = "idle"
  /\ glossaryMap = GlossaryMapOf(<<>>)
  /\ drafts = <<>>
  /\ cursor = 1
  /\ rows = <<>>
  /\ errors = <<>>
  /\ warnings = <<>>
  /\ liveStitches = 1
  /\ resolvedBodies = EmptyMap
  /\ frames = <<>>
  /\ result = NoResult
  /\ returned = <<>>
  /\ parseResult = [rows |-> <<>>]
  /\ rowIndex = 0
  /\ stitchIndex = 0
  /\ completedRows = 0
  /\ rowToast = <<>>
  /\ history = <<>>
  /\ selectedCell = NoCell
  /\ counters = <<>>
  /\ effectsPending = FALSE
  /\ performed = <<>>
  /\ knitCounters = [id \in 1..MaxKnitCounters |-> KnitCounter(id)]
  /\ createdCounters = MaxKnitCounters
  /\ connections \in Graphs
  /\ connectDragRef = NoDrag
  /\ pruningPending = FALSE

NextIncrement == ApplyCounterIncrement

SpecIncrement == InitIncrement /\ [][NextIncrement]_allVars
----------------------------------------------------------------------------
(* Properties.                                                             *)

\* s holds t as a substring
Contains(s, t) == \E i \in 1..(Len(s) - Len(t) + 1) : SubSeq(s, i, i + Len(t) - 1) = t

\* the draft under the cursor is about to go through the callback
AtDraft == pc = "forEach" /\ cursor <= Len(drafts)

\* the draft is a back-reference whose target has no body to substitute:
\* no entry for the target's number, or an entry that is the empty string
TargetMissing(draft) ==
  /\ SeeMatch(draft.body).ok
  /\ LET target == ToNumber(SeeMatch(draft.body).digits)
     IN target \notin DOMAIN resolvedBodies \/ resolvedBodies[target] = <<>>

\* the draft is a back-reference whose target has a body to substitute
TargetResolved(draft) ==
  /\ SeeMatch(draft.body).ok
  /\ LET target == ToNumber(SeeMatch(draft.body).digits)
     IN target \in DOMAIN resolvedBodies /\ resolvedBodies[target] # <<>>

\* C1: fold continuity: in the rows of a call, every row starts at the end
\* count of the row before it, whatever drafts were skipped between them.
C1_FoldContinuity ==
  /\ \A i \in 1..(Len(rows) - 1) : rows[i + 1].startCount = rows[i].endCount
  /\ pc = "returned" =>
       \A i \in 1..(Len(result.rows) - 1) :
         result.rows[i + 1].startCount = result.rows[i].endCount

\* two consecutive rows with a skipped draft between them, the first of which
\* changes the stitch count
C1_Witness ==
  /\ pc = "returned"
  /\ \E i \in 1..(Len(rows) - 1) :
       /\ rows[i].endCount # rows[i].startCount
       /\ \E k \in DOMAIN drafts :
            /\ frames[i].draft.roundNumber < drafts[k].roundNumber
            /\ drafts[k].roundNumber < frames[i + 1].draft.roundNumber

RECURSIVE SumOfDeltas(_)
SumOfDeltas(ops) ==
  IF ops = <<>> THEN 0
  ELSE (Head(ops).produce - Head(ops).consume) + SumOfDeltas(Tail(ops))

\* C2: every row ends at max(0, startCount + sum of (produce - consume) over
\* its operations), and no start or end count is negative.
C2_EndCountClamped ==
  \A i \in DOMAIN rows :
    /\ rows[i].endCount
         = (IF rows[i].startCount + SumOfDeltas(frames[i].operations) > 0
              THEN rows[i].startCount + SumOfDeltas(frames[i].operations) ELSE 0)
    /\ rows[i].startCount >= 0
    /\ rows[i].endCount >= 0

\* a row whose net decrease is larger than its start count
C2_Witness ==
  \E i \in DOMAIN rows :
    /\ rows[i].startCount + SumOfDeltas(frames[i].operations) < 0
    /\ rows[i].endCount = 0

RECURSIVE SumOfCounts(_)
SumOfCounts(steps) ==
  IF steps = <<>> THEN 0 ELSE Head(steps).count + SumOfCounts(Tail(steps))

\* C3: for every row, totalStitches = length of expanded = sum of the counts
\* of its sequence steps, a step's count is its operation's units, and every
\* entry of expanded has count 1.
C3_TotalUnits ==
  \A i \in DOMAIN rows :
    /\ rows[i].totalStitches = Len(rows[i].expanded)
    /\ Len(rows[i].expanded) = SumOfCounts(rows[i].sequence)
    /\ Len(rows[i].sequence) = Len(frames[i].operations)
    /\ \A k \in DOMAIN rows[i].sequence :
         rows[i].sequence[k].count = frames[i].operations[k].units
    /\ \A k \in DOMAIN rows[i].expanded : rows[i].expanded[k].count = 1

\* a row of several steps, one of them of more than one unit
C3_Witness ==
  \E i \in DOMAIN rows :
    /\ Len(rows[i].sequence) >= 2
    /\ \E k \in DOMAIN rows[i].sequence : rows[i].sequence[k].count >= 2

\* the outcome of a finished call equals the outcome of the call before it
SameAsBefore ==
  (pc \in {"returned", "thrown"} /\ returned # <<>>) => result = returned[Len(returned)]

\* C4: purity: a second call with the same arguments gives the same rows,
\* errors and warnings as the first, and no step of a call changes the
\* arguments.
C4_Purity ==
  /\ []SameAsBefore
  /\ [][/\ patternText' = patternText
        /\ glossary' = glossary
        /\ startingStitches' = startingStitches]_vars

\* a second call that returned several rows and a warning
C4_Witness ==
  /\ pc = "returned"
  /\ returned # <<>>
  /\ Len(result.rows) >= 2
  /\ result.warnings # <<>>

\* ds without its k-th element
Without(ds, k) == SubSeq(ds, 1, k - 1) \o SubSeq(ds, k + 1, Len(ds))

StartLoc == InitialLoc(InitialLiveStitches(startingStitches))

\* the k-th sorted draft is rejected with an error by the callback
Rejected(k) ==
  Callback(FoldDrafts(SubSeq(drafts, 1, k - 1), StartLoc, glossaryMap),
           drafts[k], glossaryMap).left \in {"unresolved", "noInstructions"}

RowView(row) ==
  [raw |-> row.raw, sequence |-> row.sequence,
   startCount |-> row.startCount, endCount |-> row.endCount]

RowViews(rs) == [i \in DOMAIN rs |-> RowView(rs[i])]

\* C5: error isolation: a draft rejected with an error contributes no row and
\* the rows of the call are the rows the call would return without that draft.
C5_ErrorIsolation ==
  pc = "returned" =>
    \A k \in DOMAIN drafts :
      Rejected(k) =>
        RowViews(FoldDrafts(Without(drafts, k), StartLoc, glossaryMap).rows)
          = RowViews(result.rows)

\* C6: no input makes parsePatternRows throw: every call returns a result.
C6_NeverThrows == pc # "thrown"

\* the tokens the body expander hands to the classifier for a body
BodyTokens(body) ==
  LET b == normalizeBodyText(body)
      text == IF MatchRepeat(b).ok THEN Trim(MatchRepeat(b).block) ELSE b
      parts == Split(text, ",")
  IN IF MatchKAroundBody(b) THEN <<>>
     ELSE SelectSeq([i \in DOMAIN parts |-> cleanToken(parts[i])], NonEmpty)

\* the token matches no rule of the classifier
IsUnknownToken(token) == parseSingleOperation(token, glossaryMap).warning # NoWarning

\* C7: fallback totality: an unknown token gets consume = produce = units = 1
\* and a warning naming it, the row of the draft that holds it is pushed, and
\* no error is added.
C7_FallbackTotality ==
  [][AtDraft /\ ~TargetMissing(drafts[cursor]) =>
       LET tokens == BodyTokens(ResolvedBody(drafts[cursor], resolvedBodies))
       IN \A t \in DOMAIN tokens :
            IsUnknownToken(tokens[t]) =>
              LET op == parseSingleOperation(tokens[t], glossaryMap)
              IN /\ op.consume = 1 /\ op.produce = 1 /\ op.units = 1
                 /\ Contains(op.warning, tokens[t])
                 /\ Len(rows') = Len(rows) + 1
                 /\ errors' = errors
                 /\ \E w \in DOMAIN warnings' : Contains(warnings'[w], tokens[t])]_vars

\* C8: a back-reference whose target has no resolved body appends an error
\* and changes nothing else: no row, no entry in resolvedBodies, the same
\* liveStitches.
C8_UnresolvedSkipped ==
  [][AtDraft /\ TargetMissing(drafts[cursor]) =>
       /\ Len(errors') = Len(errors) + 1
       /\ SubSeq(errors', 1, Len(errors)) = errors
       /\ Contains(errors'[Len(errors')], <<"c","o","u","l","d"," ","n","o","t"," ","r","e","s","o","l","v","e"," ","r","e","f","e","r","e","n","c","e">>)
       /\ rows' = rows
       /\ resolvedBodies' = resolvedBodies
       /\ liveStitches' = liveStitches
       /\ warnings' = warnings
       /\ pc' = "forEach"]_vars

\* a call that skipped an unresolved back-reference to a stored empty body
\* and pushed a row for another draft
C8_Witness ==
  /\ pc = "returned"
  /\ rows # <<>>
  /\ \E n \in DOMAIN resolvedBodies : resolvedBodies[n] = <<>>
  /\ \E e \in DOMAIN errors : Contains(errors[e], <<"c","o","u","l","d"," ","n","o","t"," ","r","e","s","o","l","v","e"," ","r","e","f","e","r","e","n","c","e">>)

\* C9: a back-reference whose target is resolved goes through the callback
\* exactly as a draft whose body is the target's resolved body would, at the
\* same live count; that body is stored under the draft's own round number,
\* and no stored body is itself a back-reference, so references chain.
C9_BackReference ==
  /\ [](\A n \in DOMAIN resolvedBodies : ~SeeMatch(resolvedBodies[n]).ok)
  /\ [][AtDraft /\ TargetResolved(drafts[cursor]) =>
          LET draft == drafts[cursor]
              body == resolvedBodies[ToNumber(SeeMatch(draft.body).digits)]
              asIf == Callback(Loc, [draft EXCEPT !.body = body], glossaryMap)
          IN /\ rows' = asIf.rows
             /\ errors' = asIf.errors
             /\ warnings' = asIf.warnings
             /\ liveStitches' = asIf.liveStitches
             /\ resolvedBodies' = asIf.resolvedBodies
             /\ draft.roundNumber \in DOMAIN resolvedBodies'
             /\ resolvedBodies'[draft.roundNumber] = body]_vars

\* Rnd4 refers to Rnd3, which refers to Rnd1: the row of Rnd4 is expanded
\* from the body of Rnd1
C9_Witness ==
  \E i \in DOMAIN frames :
    /\ frames[i].draft.body = <<"s","e","e"," ","r","n","d"," ","3">>
    /\ frames[i].resolvedBody = <<"K"," ","A","r","o","u","n","d",".">>
    /\ rows[i].startCount >= 2
    /\ rows[i].totalStitches = rows[i].startCount

\* the body is `k around`, with or without a final period, in any case
IsKAroundBody(body) == toLowerCase(body) \in {<<"k"," ","a","r","o","u","n","d">>, <<"k"," ","a","r","o","u","n","d",".">>}

\* C10: a row whose resolved body is `k around` has one operation with
\* consume = produce = units = max(1, startCount), so that its totalStitches
\* is max(1, startCount) and its endCount is its startCount.
C10_KAround ==
  \A i \in DOMAIN rows :
    IsKAroundBody(frames[i].resolvedBody) =>
      LET n == IF rows[i].startCount > 1 THEN rows[i].startCount ELSE 1
      IN /\ Len(frames[i].operations) = 1
         /\ frames[i].operations[1].consume = n
         /\ frames[i].operations[1].produce = n
         /\ frames[i].operations[1].units = n
         /\ rows[i].totalStitches = n
         /\ rows[i].endCount = rows[i].startCount

\* two `k around` rows of different lengths in one call, the later one
\* reached through a back-reference at a live count of 0
C10_Witness ==
  \E i, j \in DOMAIN rows :
    /\ i < j
    /\ IsKAroundBody(frames[i].resolvedBody)
    /\ IsKAroundBody(frames[j].resolvedBody)
    /\ SeeMatch(frames[j].draft.body).ok
    /\ rows[j].startCount = 0
    /\ rows[i].totalStitches # rows[j].totalStitches

\* the groups of the repeat pattern in a body
RepeatOf(body) == MatchRepeat(normalizeBodyText(body))

\* a list of operations n times in a row
RECURSIVE Times(_, _)
Times(ops, n) == IF n = 0 THEN <<>> ELSE ops \o Times(ops, n - 1)

RECURSIVE SumOfUnits(_)
SumOfUnits(ops) == IF ops = <<>> THEN 0 ELSE Head(ops).units + SumOfUnits(Tail(ops))

\* the largest number of digits of a repeat count that is multiplied out
MaxCountDigits == 2

\* C11: a draft whose resolved body is `*INNER*, rep from * to * N times`
\* gets the operations of INNER N times in order: its row has totalStitches
\* N * (units of INNER) and stitch delta N * (delta of INNER); this for every
\* count N written (counts of more than MaxCountDigits digits are only
\* required to give a row).
C11_RepeatBlock ==
  [][(/\ AtDraft
      /\ ~TargetMissing(drafts[cursor])
      /\ RepeatOf(ResolvedBody(drafts[cursor], resolvedBodies)).ok) =>
       LET rep == RepeatOf(ResolvedBody(drafts[cursor], resolvedBodies))
           inner == parseTokenList(Trim(rep.block), glossaryMap)
       IN IF Len(rep.digits) > MaxCountDigits
            THEN inner # <<>> => Len(rows') = Len(rows) + 1
            ELSE LET n == ToNumber(rep.digits)
                     delta == n * SumOfDeltas(inner)
                 IN IF Times(inner, n) = <<>>
                      THEN rows' = rows
                      ELSE /\ Len(rows') = Len(rows) + 1
                           /\ frames'[Len(frames')].operations = Times(inner, n)
                           /\ rows'[Len(rows')].totalStitches = n * SumOfUnits(inner)
                           /\ rows'[Len(rows')].endCount
                                = Max(0, rows'[Len(rows')].startCount + delta)]_vars

\* a is b with some elements left out
RECURSIVE IsSubsequence(_, _)
IsSubsequence(a, b) ==
  IF a = <<>> THEN TRUE
  ELSE IF b = <<>> THEN FALSE
  ELSE IF Head(a) = Head(b) THEN IsSubsequence(Tail(a), Tail(b))
  ELSE IsSubsequence(a, Tail(b))

\* the drafts of ds that have the round number n, in their order in ds
OfRound(ds, n) ==
  LET HasNumber(d) == d.roundNumber = n
  IN SelectSeq(ds, HasNumber)

\* the drafts the rows of the running call were pushed for
FrameDrafts == [i \in DOMAIN frames |-> frames[i].draft]

\* the drafts in the order the text gives them
InputDrafts == parseRoundDrafts(patternText).drafts

\* sorted holds the drafts of input in non-decreasing round-number order,
\* those of one round number in the order they have in input
IsStableSortOf(sorted, input) ==
  /\ \A i, j \in DOMAIN sorted :
       i < j => sorted[i].roundNumber <= sorted[j].roundNumber
  /\ Len(sorted) = Len(input)
  /\ \A k \in DOMAIN sorted :
       OfRound(sorted, sorted[k].roundNumber) = OfRound(input, sorted[k].roundNumber)

\* C12: the drafts are processed in non-decreasing round-number order, those
\* of one round number in the order of the input; the rows are pushed in
\* that order, one for some of the drafts processed so far, and each row
\* starts at the end count of the row before it.
C12_ProcessingOrder ==
  pc # "idle" =>
    /\ (pc = "forEach" /\ cursor = 1 /\ returned = <<>>) =>
         IsStableSortOf(drafts, InputDrafts)
    /\ \A i, j \in DOMAIN drafts :
         i < j => drafts[i].roundNumber <= drafts[j].roundNumber
    /\ IsSubsequence(FrameDrafts, SubSeq(drafts, 1, cursor - 1))
    /\ \A i \in DOMAIN rows :
         /\ rows[i].raw = frames[i].draft.raw
         /\ i > 1 => /\ frames[i - 1].draft.roundNumber <= frames[i].draft.roundNumber
                     /\ rows[i].startCount = rows[i - 1].endCount
    /\ pc = "returned" => result.rows = rows

\* a text whose drafts are not in round-number order gives two rows of one
\* round number with different bodies, the second starting where the first
\* ended
C12_Witness ==
  /\ pc = "returned"
  /\ drafts # InputDrafts
  /\ \E i \in DOMAIN rows :
       /\ i > 1
       /\ frames[i - 1].draft.roundNumber = frames[i].draft.roundNumber
       /\ frames[i - 1].draft.body # frames[i].draft.body
       /\ rows[i - 1].endCount # rows[i - 1].startCount

\* the tokens of a recognized shape, each with the rule of the classifier
\* table it falls under and the count written in it
TokenTable ==
  {[token |-> TokenPlace, rule |-> "cable setup", count |-> 2],
   [token |-> TokenFromCN, rule |-> "kN from cn", count |-> 2],
   [token |-> TokenK1yok1, rule |-> "k1yok1", count |-> 1],
   [token |-> TokenYo, rule |-> "yo", count |-> 1],
   [token |-> TokenCdd, rule |-> "cdd", count |-> 3],
   [token |-> TokenKTog, rule |-> "kNtog", count |-> 2],
   [token |-> TokenKTogTbl, rule |-> "kNtog", count |-> 3],
   [token |-> TokenSlip, rule |-> "slN", count |-> 2],
   [token |-> TokenKnit, rule |-> "kN", count |-> 2],
   [token |-> TokenPurl, rule |-> "kN", count |-> 3],
   [token |-> TokenK, rule |-> "k", count |-> 1],
   [token |-> TokenP, rule |-> "k", count |-> 1],
   [token |-> TokenKnitZero, rule |-> "kN", count |-> 0],
   [token |-> TokenSlipZero, rule |-> "slN", count |-> 0],
   [token |-> TokenKTogZero, rule |-> "kNtog", count |-> 0]}

\* <<consume, produce, units>> of a rule of the table for the count n
RuleTriple(rule, n) ==
  CASE rule = "cable setup" -> <<0, 0, 1>>
    [] rule = "kN from cn" -> <<n, n, n>>
    [] rule = "k1yok1" -> <<1, 3, 1>>
    [] rule = "yo" -> <<0, 1, 1>>
    [] rule = "cdd" -> <<3, 1, 3>>
    [] rule = "kNtog" -> <<n, 1, n>>
    [] rule = "slN" -> <<n, n, n>>
    [] rule = "kN" -> <<n, n, n>>
    [] rule = "k" -> <<1, 1, 1>>

\* a text of one round of m tokens of one shape gives one row of m operations
\* with the triple of the table, the count of the rule being the written
\* count, or zeroAs when 0 is written; the row has m * units cells and ends
\* at max(0, startCount + m * (produce - consume))
TableHolds(zeroAs) ==
  pc = "returned" =>
    \A e \in TokenTable : \A m \in 1..MaxTokens :
      patternText = <<"R","n","d","1",":"," ">> \o TokenRow(e.token, m) =>
        LET triple == RuleTriple(e.rule, IF e.count = 0 THEN zeroAs ELSE e.count)
        IN /\ Len(result.rows) = 1
           /\ Len(frames[1].operations) = m
           /\ \A k \in 1..m :
                /\ frames[1].operations[k].consume = triple[1]
                /\ frames[1].operations[k].produce = triple[2]
                /\ frames[1].operations[k].units = triple[3]
                /\ frames[1].operations[k].warning = NoWarning
           /\ result.rows[1].totalStitches = m * triple[3]
           /\ result.rows[1].startCount = Max(1, startingStitches)
           /\ result.rows[1].endCount
                = Max(0, result.rows[1].startCount + m * (triple[2] - triple[1]))

\* C13 as stated: the count of a rule is the number written in the token,
\* also when that number is 0.
C13_ClassifierTableAsWritten == TableHolds(0)

\* C13: every token of a recognized shape gets the <<consume, produce,
\* units>> of its rule of the table, N being the count written in the token
\* and 1 when the written count is 0; a row of m `k2tog` has 2m cells and
\* ends at max(0, startCount - m).
C13_ClassifierTable == TableHolds(1)

\* a row of two `k2tog` that starts at 1 and ends at 0
C13_Witness ==
  /\ pc = "returned"
  /\ patternText = <<"R","n","d","1",":"," ">> \o TokenRow(TokenKTog, 2)
  /\ Len(result.rows) = 1
  /\ result.rows[1].totalStitches = 4
  /\ result.rows[1].startCount = 1
  /\ result.rows[1].endCount = 0

\* the integers the headers of a logical line list, header by header
HeaderNumbers(line) ==
  LET matches == HeaderMatches(line, 1)
  IN [i \in DOMAIN matches |->
        DigitRuns(Slice(line, matches[i].index, matches[i].end))]

LogicalLines == JoinLines(RawLines(patternText), <<>>, <<>>).logicalLines

\* the headers of the text in text order, each as the list of its integers
Headers == Flat([i \in DOMAIN LogicalLines |-> HeaderNumbers(LogicalLines[i])])

\* the number of drafts of the headers before header h
RECURSIVE DraftsBefore(_, _)
DraftsBefore(headers, h) ==
  IF h = 1 THEN 0 ELSE DraftsBefore(headers, h - 1) + Len(headers[h - 1])

\* the number of positions of a sequence that hold x
Count(seq, x) == Cardinality({i \in DOMAIN seq : seq[i] = x})

\* the extractor gave, header by header, one draft per integer of the
\* header, all of them with the body of the first
OnePerInteger(extracted, headers) ==
  /\ Len(extracted.drafts) = DraftsBefore(headers, Len(headers) + 1)
  /\ \A h \in DOMAIN headers : \A k \in DOMAIN headers[h] :
       /\ extracted.drafts[DraftsBefore(headers, h) + k].roundNumber
            = ToNumber(headers[h][k])
       /\ extracted.drafts[DraftsBefore(headers, h) + k].body
            = extracted.drafts[DraftsBefore(headers, h) + 1].body

\* the visit of a draft that does not throw gives one row or one error
RowOrErrorEach ==
  pc' = "forEach" =>
    /\ Len(rows') + Len(errors') = Len(rows) + Len(errors) + 1
    /\ SubSeq(rows', 1, Len(rows)) = rows
    /\ SubSeq(errors', 1, Len(errors)) = errors

\* the extractor has run in the first call on the text and no draft was
\* visited yet; what it gives is a function of the text alone
AfterExtraction == pc = "forEach" /\ cursor = 1 /\ returned = <<>>

\* the drafts of one body that is no back-reference all have their rows,
\* as many as there are drafts, or none has
RowsOfEqualDrafts(visited) ==
  \A d \in Range(drafts) : ~SeeMatch(d.body).ok =>
    /\ Count(visited, d) \in {0, Count(drafts, d)}
    /\ \A e \in Range(drafts) : e.body = d.body =>
         (Count(visited, e) = 0 <=> Count(visited, d) = 0)

\* C14: a header that lists k integers gives k drafts with one body, one per
\* integer in header order; every visited draft gives a row or an error of
\* its own, a draft that repeats the body or the round number of another
\* one included, and a row starts at the end count of the row before it.
C14_MultiNumberHeader ==
  /\ [](AfterExtraction => OnePerInteger(parseRoundDrafts(patternText), Headers))
  /\ [][AtDraft => RowOrErrorEach]_vars
  /\ [](\A i \in DOMAIN rows : i > 1 => rows[i].startCount = rows[i - 1].endCount)
  /\ [](pc = "returned" => RowsOfEqualDrafts(FrameDrafts))

\* the header `Rnd1,5:` twice: four rows, two for each round number with
\* the same body, and the rows of round 5 start where those of round 1 end
C14_Witness ==
  /\ pc = "returned"
  /\ Len(InputDrafts) = 4
  /\ Len(result.rows) = 4
  /\ frames[1].draft = frames[2].draft
  /\ frames[3].draft.body = frames[1].draft.body
  /\ frames[3].draft.roundNumber # frames[1].draft.roundNumber
  /\ result.rows[3].startCount = result.rows[2].endCount

\* the expansion of the resolved body of the draft under visit
Expansion ==
  parseBodyOperations(ResolvedBody(drafts[cursor], resolvedBodies), liveStitches,
                      glossaryMap)

NoOperations(parsed) == parsed.thrown = NoException /\ parsed.operations = <<>>

\* C15: when the expansion of the resolved body of a draft gives no
\* operation, the error `Rnd<n>: no instructions parsed.` is appended for
\* the round of the draft, no row is pushed and liveStitches keeps its value.
C15_ZeroOperations ==
  [][(AtDraft /\ ~TargetMissing(drafts[cursor]) /\ NoOperations(Expansion)) =>
       /\ errors' = Append(errors, <<"R","n","d">> \o NumberToString(drafts[cursor].roundNumber)
                                     \o <<":"," ","n","o"," ","i","n","s","t","r","u","c","t","i","o","n","s"," ","p","a","r","s","e","d",".">>)
       /\ rows' = rows
       /\ frames' = frames
       /\ liveStitches' = liveStitches
       /\ cursor' = cursor + 1
       /\ pc' = "forEach"]_vars

\* a call that pushed a row, then rejected a draft without instructions,
\* then pushed a row for the draft after it
C15_Witness ==
  /\ pc = "returned"
  /\ \E e \in DOMAIN errors : Contains(errors[e], <<"n","o"," ","i","n","s","t","r","u","c","t","i","o","n","s"," ","p","a","r","s","e","d">>)
  /\ \E i \in DOMAIN rows : \E k \in DOMAIN drafts :
       /\ i > 1 /\ k > 1 /\ k < Len(drafts)
       /\ drafts[k].body \in {<<>>, <<",">>}
       /\ frames[i - 1].draft = drafts[k - 1]
       /\ frames[i].draft = drafts[k + 1]
       /\ rows[i].startCount = rows[i - 1].endCount

\* C16: the first row of a call starts at max(1, startingStitches), however
\* many drafts before it in sorted order were skipped with an error.
C16_FirstRowStart ==
  /\ rows # <<>> => rows[1].startCount = Max(1, startingStitches)
  /\ (pc = "returned" /\ result.rows # <<>>) =>
       result.rows[1].startCount = Max(1, startingStitches)

\* a call with startingStitches = 0 whose first two drafts were skipped
\* with an error before the first row
C16_Witness ==
  /\ pc = "returned"
  /\ startingStitches = 0
  /\ result.rows # <<>>
  /\ Len(drafts) > 2
  /\ frames[1].draft = drafts[3]
  /\ Len(errors) >= 2
  /\ result.rows[1].startCount = 1

\* the round number a back-reference draft refers to
TargetOf(draft) == ToNumber(SeeMatch(draft.body).digits)

\* a draft of round number n was visited before the draft under visit
VisitedEarlier(n) == \E j \in 1..(cursor - 1) : drafts[j].roundNumber = n

\* the draft under visit refers to a round after its own, or to its own
\* round with no earlier draft of that round
RefersAhead(draft) ==
  /\ SeeMatch(draft.body).ok
  /\ \/ TargetOf(draft) > draft.roundNumber
     \/ TargetOf(draft) = draft.roundNumber /\ ~VisitedEarlier(draft.roundNumber)

\* the step appended an error for an unresolved reference and nothing else
SkippedUnresolved ==
  /\ Len(errors') = Len(errors) + 1
  /\ Contains(errors'[Len(errors')], <<"c","o","u","l","d"," ","n","o","t"," ","r","e","s","o","l","v","e"," ","r","e","f","e","r","e","n","c","e">>)
  /\ rows' = rows
  /\ resolvedBodies' = resolvedBodies

\* C17: a back-reference to round N gets past the resolution only if a body
\* is stored for N, a body is stored only under the number of a draft that
\* was visited and not skipped for an unresolved reference, and a reference
\* to a later round, or to the draft's own round with no earlier draft of
\* that round, ends in an error and never in a row.
C17_ProcessedTargetsOnly ==
  /\ [](pc \in {"forEach", "returned", "thrown"} =>
          /\ \A n \in DOMAIN resolvedBodies :
               \E j \in DOMAIN drafts : j <= cursor /\ drafts[j].roundNumber = n
          /\ \A i \in DOMAIN frames :
               SeeMatch(frames[i].draft.body).ok =>
                 TargetOf(frames[i].draft) <= frames[i].draft.roundNumber)
  /\ [][AtDraft =>
          /\ (SeeMatch(drafts[cursor].body).ok /\ ~SkippedUnresolved) =>
               /\ TargetOf(drafts[cursor]) \in DOMAIN resolvedBodies
               /\ VisitedEarlier(TargetOf(drafts[cursor]))
          /\ resolvedBodies' # resolvedBodies =>
               /\ ~SkippedUnresolved
               /\ DOMAIN resolvedBodies'
                    = DOMAIN resolvedBodies \cup {drafts[cursor].roundNumber}
               /\ \A n \in DOMAIN resolvedBodies :
                    n # drafts[cursor].roundNumber => resolvedBodies'[n] = resolvedBodies[n]
          /\ RefersAhead(drafts[cursor]) => SkippedUnresolved /\ pc' = "forEach"]_vars

\* a call that rejected a reference to a later round, whose target is in
\* the text, and pushed a row for a reference to an earlier round
C17_Witness ==
  /\ pc = "returned"
  /\ \E k, t \in DOMAIN drafts :
       /\ SeeMatch(drafts[k].body).ok
       /\ TargetOf(drafts[k]) > drafts[k].roundNumber
       /\ drafts[t].roundNumber = TargetOf(drafts[k])
       /\ \E e \in DOMAIN result.errors :
            result.errors[e] = UnresolvedError(drafts[k], TargetOf(drafts[k]))
  /\ \E i \in DOMAIN frames :
       /\ SeeMatch(frames[i].draft.body).ok
       /\ TargetOf(frames[i].draft) < frames[i].draft.roundNumber

\* C18: every operation of a row consumes and produces at least 0 stitches
\* and takes at least 1 unit, also when the count written in its token is 0,
\* so every row has at least one cell.
C18_PositiveUnits ==
  /\ \A i \in DOMAIN frames :
       /\ \A k \in DOMAIN frames[i].operations :
            /\ frames[i].operations[k].consume >= 0
            /\ frames[i].operations[k].produce >= 0
            /\ frames[i].operations[k].units >= 1
       /\ rows[i].totalStitches >= 1
  /\ pc = "returned" => \A i \in DOMAIN result.rows : result.rows[i].totalStitches >= 1

\* the rows of `k0`, `sl0` and `k0tog`: one operation of one unit each
C18_Witness ==
  /\ pc = "returned"
  /\ patternText \in {<<"R","n","d","1",":"," ">> \o TokenKnitZero, <<"R","n","d","1",":"," ">> \o TokenSlipZero,
                      <<"R","n","d","1",":"," ">> \o TokenKTogZero}
  /\ Len(result.rows) = 1
  /\ Len(frames[1].operations) = 1
  /\ frames[1].operations[1].units = 1
  /\ result.rows[1].totalStitches = 1

\* the warnings of the operations the rows carry, each with the prefix
\* `Rnd<n>: ` of the round of its row
WarningsOfRow(frame) ==
  {<<"R","n","d">> \o NumberToString(frame.draft.roundNumber) \o <<":"," ">>
     \o frame.operations[k].warning :
       k \in {k \in DOMAIN frame.operations : frame.operations[k].warning # NoWarning}}

WarningsOfRows == UNION {WarningsOfRow(frames[i]) : i \in DOMAIN frames}

\* C19: the warnings of a result hold no string twice, and they are the
\* warnings of the operations of the rows, each prefixed with `Rnd<n>: ` for
\* the round n of the row that carries the operation: one warning per round
\* for a token used in several rounds or reached through a back-reference,
\* and one for a token used several times in one round.
C19_WarningsDeduplicated ==
  pc = "returned" =>
    /\ \A i, j \in DOMAIN result.warnings :
         i # j => result.warnings[i] # result.warnings[j]
    /\ Range(result.warnings) = WarningsOfRows

\* the unknown token twice in round 2 and, through a back-reference, twice
\* in round 3: four warnings pushed, two returned
C19_Witness ==
  /\ pc = "returned"
  /\ Len(warnings) = 4
  /\ Len(result.warnings) = 2
  /\ \E i \in DOMAIN frames :
       /\ SeeMatch(frames[i].draft.body).ok
       /\ Len(frames[i].operations) = 2
       /\ frames[i].operations[1].warning # NoWarning
       /\ frames[i].operations[2].warning = frames[i].operations[1].warning

\* a line that is neither a comment nor the start of a round
IsContinuation(line) == ~IsNoteLine(line) /\ ~IsHeaderLine(line)

\* a logical line precedes line i: some line before it starts a round
HeaderBefore(raw, i) == \E j \in 1..(i - 1) : IsHeaderLine(raw[j])

\* the last line before line i that is no comment
LastBefore(raw, i) == CHOOSE j \in 1..(i - 1) :
  /\ ~IsNoteLine(raw[j])
  /\ \A k \in (j + 1)..(i - 1) : IsNoteLine(raw[k])

\* the lines without line i
WithoutLine(raw, i) == SubSeq(raw, 1, i - 1) \o SubSeq(raw, i + 1, Len(raw))

\* the lines with line i moved to the end of line j, after a space
JoinedTo(raw, i, j) == WithoutLine([raw EXCEPT ![j] = raw[j] \o <<" ">> \o raw[i]], i)

\* what the extractor gives for a list of trimmed non-blank lines
ExtractedFrom(raw) == DraftsOfLines(JoinLines(raw, <<>>, <<>>))

ContinuationError(line) ==
  <<"U","n","e","x","p","e","c","t","e","d"," ","c","o","n","t","i","n","u","a","t","i","o","n"," ","w","i","t","h","o","u","t"," ","r","o","u","n","d"," ","h","e","a","d","e","r",":"," ","\"">> \o line \o <<"\"">>

\* line i of raw is a continuation after a logical line: the text gives
\* what it gives with the line written at the end of the line before it,
\* and a line without a colon is in a draft's body
ContinuationJoined(raw, i, extracted) ==
  /\ extracted = ExtractedFrom(JoinedTo(raw, i, LastBefore(raw, i)))
  /\ <<":">>[1] \notin Range(raw[i]) =>
       \E d \in DOMAIN extracted.drafts :
         Contains(extracted.drafts[d].body, normalizeBodyText(raw[i]))

\* line i of raw is a continuation with no logical line before it: the text
\* gives the drafts it gives without the line, and one more error
ContinuationRejected(raw, i, extracted, without) ==
  /\ ContinuationError(raw[i]) \in Range(extracted.errors)
  /\ extracted.drafts = without.drafts
  /\ Len(extracted.errors) = Len(without.errors) + 1

ContinuationsHandled(raw, extracted) ==
  \A i \in DOMAIN raw : IsContinuation(raw[i]) =>
    IF HeaderBefore(raw, i)
      THEN ContinuationJoined(raw, i, extracted)
      ELSE ContinuationRejected(raw, i, extracted, ExtractedFrom(WithoutLine(raw, i)))

\* C20: a line that is neither blank nor a comment nor the start of a round
\* is joined, after a space, to the logical line before it and is part of
\* the body of a round of that line; with no logical line before it, it
\* gives the error `Unexpected continuation without round header`, is part
\* of no draft, and the lines after it give the drafts they give without it.
C20_Continuation ==
  AfterExtraction =>
    /\ ContinuationsHandled(RawLines(patternText), parseRoundDrafts(patternText))
    /\ errors = parseRoundDrafts(patternText).errors

\* a continuation line before the first header: the error for it, and the
\* row of the line after it
C20_Witness ==
  /\ pc = "returned"
  /\ patternText = LineContinuation \o <<"\n">> \o LineZeroRepeat
  /\ result.errors = <<ContinuationError(LineContinuation)>>
  /\ Len(result.rows) = 1
  /\ frames[1].draft.body = <<"*","k","2","t","o","g",","," ","y","o","*",","," ","r","e","p"," ","f","r","o","m"," ","*"," ","t","o"," ","*"," ","0"," ","t","i","m","e","s",".">>

\* the text of the line between the end of every header and the start of
\* the next header, or the end of the line
BodySpans(line, matches) ==
  [i \in DOMAIN matches |->
     [from |-> matches[i].end,
      to |-> IF i < Len(matches) THEN matches[i + 1].index ELSE Len(line) + 1]]

NormalizedSpans(line, spans) ==
  [i \in DOMAIN spans |-> normalizeBodyText(Slice(line, spans[i].from, spans[i].to))]

\* the whitespace-normalized span of every header of the text, in text order
BodiesOfHeaders(lines) ==
  Flat([l \in DOMAIN lines |->
          NormalizedSpans(lines[l], BodySpans(lines[l], HeaderMatches(lines[l], 1)))])

\* the spans of a line follow one another without a common position, each
\* after its own header
SpansDisjoint(matches, spans) ==
  \A i \in DOMAIN spans :
    /\ matches[i].index < spans[i].from
    /\ spans[i].from <= spans[i].to
    /\ \A j \in DOMAIN spans : i < j => spans[i].to <= matches[j].index

LinesDisjoint(lines) ==
  \A l \in DOMAIN lines :
    SpansDisjoint(HeaderMatches(lines[l], 1),
                  BodySpans(lines[l], HeaderMatches(lines[l], 1)))

\* every draft of header h has the span of header h as its body
BodiesAreSpans(extracted, headers, bodies) ==
  /\ Len(bodies) = Len(headers)
  /\ \A h \in DOMAIN headers : \A k \in DOMAIN headers[h] :
       extracted.drafts[DraftsBefore(headers, h) + k].body = bodies[h]

\* C21: the drafts of every header of a logical line have as body the
\* whitespace-normalized text between the end of the header and the start of
\* the next header of the line, the end of the line for the last; these
\* spans have no position in common, so no instruction is in two bodies.
C21_BodySpans ==
  AfterExtraction =>
    /\ LinesDisjoint(LogicalLines)
    /\ BodiesAreSpans(parseRoundDrafts(patternText), Headers, BodiesOfHeaders(LogicalLines))

\* a logical line with two headers whose drafts have the two bodies of the
\* line
C21_Witness ==
  /\ AfterExtraction
  /\ patternText = LineUnknownTwice
  /\ Len(drafts) = 2
  /\ drafts[1].body = <<"m","1","l",","," ","m","1","l">>
  /\ drafts[2].body = <<"s","e","e"," ","R","n","d","2",".">>

\* the number of INNER tokens of a repeat block
InnerTokens(repeatMatch, gm) == Len(parseTokenList(Trim(repeatMatch.block), gm))

\* the count written in a repeat block is greater than 10,000
OverCap(repeatMatch) ==
  DecimalGreater(StripLeadingZeros(repeatMatch.digits), <<"1","0","0","0","0">>)

RowWithinCap(frame, repeatMatch, gm) ==
  (repeatMatch.ok /\ OverCap(repeatMatch)) =>
    Len(frame.operations) <= 10000 * InnerTokens(repeatMatch, gm)

\* C22: a repeat block whose count is greater than 10,000 is rejected or
\* clamped: a row of such a block has at most 10,000 times the number of
\* INNER tokens as operations.
C22_RepeatCapped ==
  \A i \in DOMAIN frames :
    RowWithinCap(frames[i], RepeatOf(frames[i].resolvedBody), glossaryMap)

----------------------------------------------------------------------------
(* C27: the ids of the rows of a result.                                   *)

\* no two rows of the list have the same id
DistinctIds(rs) == \A i, j \in DOMAIN rs : i # j => rs[i].id # rs[j].id

\* C27: no two rows of a ParseResult share the same id, so the ids can be
\* the keys of the rendered rows.
C27_UniqueRowIds == pc = "returned" => DistinctIds(result.rows)

----------------------------------------------------------------------------
(* C28: `k around` as one item among others.                               *)

\* the items of a comma-separated text: its non-empty cleaned parts
ItemsOfList(text) == SelectSeq(CleanTokens(Split(text, ",")), NonEmpty)

\* the items a body is expanded from: those of INNER for a repeat block,
\* those of the body otherwise
ItemsOfMatched(body, repeatMatch) ==
  IF repeatMatch.ok THEN ItemsOfList(Trim(repeatMatch.block)) ELSE ItemsOfList(body)

ItemsOf(body) == ItemsOfMatched(body, MatchRepeat(body))

\* the item the k-th operation of a row was made from, a repeat block going
\* through its items once per repetition
ItemAt(items, k) == items[((k - 1) % Len(items)) + 1]

IsKAroundItem(item) == toLowerCase(item) = <<"k"," ","a","r","o","u","n","d">>

IsSingleKnit(op) ==
  /\ op.code = <<"k">>
  /\ op.consume = 1
  /\ op.produce = 1
  /\ op.units = 1
  /\ op.warning = NoWarning

\* the operations made from a `k around` item are single knit stitches
KAroundItemsSingle(operations, items) ==
  \A k \in DOMAIN operations :
    IsKAroundItem(ItemAt(items, k)) => IsSingleKnit(operations[k])

\* the row of a whole-body `k around` has the live count as its length
WholeBodyExpands(row, operations) ==
  /\ Len(operations) = 1
  /\ operations[1].units = Max(1, row.startCount)

\* C28: a `k around` that is one item of a comma-separated body or of the
\* INNER of a repeat block is a single knit stitch with consume = produce =
\* units = 1 and no warning, whatever the live count; only a body that is
\* `k around` as a whole expands to the live count.
C28_KAroundItem ==
  \A i \in DOMAIN frames :
    IF IsKAroundBody(frames[i].resolvedBody)
      THEN WholeBodyExpands(rows[i], frames[i].operations)
      ELSE KAroundItemsSingle(frames[i].operations, ItemsOf(frames[i].resolvedBody))

\* a row at a live count of 2 whose first item is `k around` and is one
\* stitch of the two of the row
C28_Witness ==
  /\ patternText = LineKAroundItem
  /\ Len(rows) = 2
  /\ rows[2].startCount = 2
  /\ IsKAroundItem(ItemsOf(frames[2].resolvedBody)[1])
  /\ IsSingleKnit(frames[2].operations[1])
  /\ rows[2].totalStitches = 2

----------------------------------------------------------------------------
(* C23, C24, C26: the pattern cursor.                                      *)

\* the cursor is at a stitch of a row
InBounds(rs, p) ==
  /\ 0 <= p.rowIndex
  /\ p.rowIndex < Len(rs)
  /\ 0 <= p.stitchIndex
  /\ p.stitchIndex < rs[p.rowIndex + 1].totalStitches

\* C23: whenever rows is not empty and the clamp effect has settled,
\* 0 <= rowIndex < rows.length and 0 <= stitchIndex < the totalStitches of
\* the row, under every interleaving of edits and cursor operations.
C23_CursorBounds ==
  (parseResult.rows # <<>> /\ ~effectsPending) => InBounds(parseResult.rows, Page)

\* the cursor is in bounds after an edit left it outside: the latest history
\* entry is not a stitch of the rows of now
C23_Witness ==
  /\ parseResult.rows # <<>>
  /\ ~effectsPending
  /\ history # <<>>
  /\ ~InBounds(parseResult.rows, Head(history))
  /\ InBounds(parseResult.rows, Page)

\* the number of stitches of the first r rows
RECURSIVE StitchesOfRows(_, _)
StitchesOfRows(rs, r) ==
  IF r = 0 THEN 0 ELSE StitchesOfRows(rs, r - 1) + rs[r].totalStitches

\* the place of the cursor in row-major order
Position(rs, p) == StitchesOfRows(rs, p.rowIndex) + p.stitchIndex

\* the number of stitches after the cursor
StitchesAfter(rs, p) == StitchesOfRows(rs, Len(rs)) - 1 - Position(rs, p)

Min(a, b) == IF a <= b THEN a ELSE b

AdvancedBy(rs, before, after, n) ==
  /\ InBounds(rs, after)
  /\ Position(rs, after) = Position(rs, before) + Min(n, StitchesAfter(rs, before))
  /\ StitchesAfter(rs, before) = 0 =>
       /\ after.rowIndex = before.rowIndex
       /\ after.stitchIndex = before.stitchIndex
       /\ after.rowToast = PatternComplete

\* C24: from an in-bounds cursor incrementPatternBy(n), n >= 1, moves the
\* cursor forward by exactly min(n, stitches after the cursor) in row-major
\* order, so never backward and over no stitch; at the last stitch of the
\* last row the cursor stays and the toast is `Pattern complete.`.
C24_Advance ==
  [][\A n \in Steps :
       (IncrementPatternBy(n) /\ parseResult.rows # <<>>
          /\ InBounds(parseResult.rows, Page))
         => AdvancedBy(parseResult.rows, Page, Page', n)]_allVars

\* +5 at the first stitch of three rows of three stitches: the cursor is at
\* the last stitch, two rows further
C24_Witness ==
  /\ patternText = TextThreeRows
  /\ performed # <<>>
  /\ Head(performed).before = [rowIndex |-> 0, stitchIndex |-> 0, completedRows |-> 0]
  /\ history = <<Head(performed).before>>
  /\ rowIndex = 2
  /\ stitchIndex = 0
  /\ completedRows = 2
  /\ rowToast = PatternComplete

\* the operations of performed that recorded a history entry
IsRecorded(entry) == entry.recorded

Recorded(ps) == SelectSeq(ps, IsRecorded)

UndoOnEmptyHistory ==
  (UndoPatternStep /\ history = <<>>) =>
    UNCHANGED <<rowIndex, stitchIndex, completedRows, history>>

\* C26 as written: with rows fixed, undoPatternStep after any one of
\* incrementPatternBy, moveToNextRow and moveToSelectedCell restores
\* (rowIndex, stitchIndex, completedRows) to their values before that
\* operation, k undos after k operations those before the first of them, and
\* undo on an empty history changes nothing.
C26_UndoRoundTripAsWritten ==
  [][/\ UndoOnEmptyHistory
     /\ (UndoPatternStep /\ performed # <<>>) =>
          Snapshot(Page') = Head(performed).before]_allVars

\* C26: with rows fixed, undoPatternStep after operations that recorded a
\* history entry (incrementPatternBy with rows not empty, moveToNextRow with
\* rows not empty, moveToSelectedCell) restores the cursor and completedRows
\* of before the latest of them not yet undone; an operation on empty rows
\* records nothing and is not undone; undo on an empty history changes
\* nothing.
C26_UndoRoundTrip ==
  [][/\ UndoOnEmptyHistory
     /\ (UndoPatternStep /\ Recorded(performed) # <<>>) =>
          Snapshot(Page') = Head(Recorded(performed)).before]_allVars

\* Next Row from the first row and Undo: the toast of the move is still
\* shown and the cursor and completedRows are those of the start
C26_Witness ==
  /\ patternText = TextThreeRows
  /\ rowToast = MovedToRowToast(parseResult.rows[2])
  /\ rowIndex = 0
  /\ stitchIndex = 0
  /\ completedRows = 0
  /\ history = <<>>
  /\ performed = <<>>

----------------------------------------------------------------------------
(* C25: a counter that advances the pattern.                               *)

Contributes(cs, counterId) ==
  \E i \in DOMAIN cs : cs[i].id = counterId /\ cs[i].contributes

CursorUnchanged == UNCHANGED <<rowIndex, stitchIndex, completedRows>>

\* C25: incrementCounter(id, amount) with amount > 0 on a counter whose
\* contributes flag is set advances the cursor by amount stitches in the
\* same interaction; with amount <= 0 or a counter that does not contribute
\* the cursor is unchanged; no counter has a negative value.
C25_CounterAdvances ==
  [][\A id \in 1..MaxCounters : \A amount \in Amounts :
       IncrementCounter(id, amount) =>
         /\ IF amount > 0 /\ Contributes(counters, id)
              THEN Position(parseResult.rows, Page')
                     = Position(parseResult.rows, Page)
                         + Min(amount, StitchesAfter(parseResult.rows, Page))
              ELSE CursorUnchanged
         /\ \A i \in DOMAIN counters' : counters'[i].value >= 0]_allVars

----------------------------------------------------------------------------
(* C29, C30: the counters and their connections.                           *)

\* the counters one connection away from a counter of the set
Successors(conns, ids) ==
  {conns[i].toCounterId : i \in {j \in DOMAIN conns : conns[j].fromCounterId \in ids}}

\* the counters at most n connections away from a counter of the set
RECURSIVE Within(_, _, _)
Within(conns, ids, n) ==
  IF n = 0 THEN ids ELSE Within(conns, ids \cup Successors(conns, ids), n - 1)

\* the source and the counters reachable from it: a path that visits no
\* counter twice has fewer connections than there are counters
Reachable(conns, source) == Within(conns, {source}, MaxKnitCounters)

IncrementedOnce(before, after, conns, source, amount) ==
  /\ DOMAIN after = DOMAIN before
  /\ \A i \in DOMAIN before :
       /\ after[i].id = before[i].id
       /\ after[i].value =
            IF amount > 0 /\ before[i].id \in Reachable(conns, source)
              THEN before[i].value + amount
              ELSE before[i].value

\* C29: applyCounterIncrement(c, amount) with amount > 0 adds amount exactly
\* once to c and to every counter reachable from c along the connections,
\* with cycles and with several paths to a counter, and leaves the other
\* counters as they are; with amount <= 0 no counter changes.
C29_ConnectedIncrement ==
  [][\A id \in CounterIds(knitCounters) : \A amount \in IncrementAmounts :
       knitCounters' = applyCounterIncrement(knitCounters, connections, id, amount)
         => IncrementedOnce(knitCounters, knitCounters', connections, id, amount)]_allVars

\* counters 1 and 2 on a cycle, both connected to 3, and all three
\* incremented once
C29_Witness ==
  /\ connections = <<CounterConnection(1, 2), CounterConnection(1, 3),
                     CounterConnection(2, 1), CounterConnection(2, 3)>>
  /\ \A i \in DOMAIN knitCounters : knitCounters[i].value = 2

NoSelfConnection(conns) ==
  \A i \in DOMAIN conns : conns[i].fromCounterId # conns[i].toCounterId

NoDoubleConnection(conns) ==
  \A i, j \in DOMAIN conns :
    (conns[i].fromCounterId = conns[j].fromCounterId
       /\ conns[i].toCounterId = conns[j].toCounterId) => i = j

EndsExist(conns, ids) ==
  \A i \in DOMAIN conns : conns[i].fromCounterId \in ids /\ conns[i].toCounterId \in ids

\* C30: once the pruning effect has run, no connection goes from a counter
\* to itself, no two connections have the same source and target, and the
\* two ends of every connection are counters of the page.
C30_ConnectionGraph ==
  ~pruningPending =>
    /\ NoSelfConnection(connections)
    /\ NoDoubleConnection(connections)
    /\ EndsExist(connections, CounterIds(knitCounters))

\* the two parts of C30 that hold in every state
C30_NoSelfNoDouble == NoSelfConnection(connections) /\ NoDoubleConnection(connections)

====
